---- MODULE Spec2Model ----
(***************************************************************************)
(* Model of the MCP client's tool-call orchestration loop                  *)
(* (mcpclient/client.py, MCPClient.process_query_streaming), of the two    *)
(* language-model adapters it can drive (mcpclient/llm/gpt4o.py,           *)
(* mcpclient/llm/gemini.py) and of the token-level behaviour of the        *)
(* tool-call extractor (mcpclient/tools/extraction.py), and of the client's *)
(* sessions: MCPClient.connect_to_server / disconnect, MCPSession           *)
(* (session.py) and its connector (connectors/stdio.py,                     *)
(* mcpclient/connectors/base.py).                                           *)
(*                                                                         *)
(* Text is modelled as a sequence of pieces.  A piece is a record          *)
(* [k, name, params]: k says what the piece of text is, name is the tool   *)
(* name it mentions (or ""), params the kind of its parameters span.       *)
(* String concatenation is concatenation of sequences.                     *)
(***************************************************************************)
EXTENDS Integers, Sequences, FiniteSets, TLC

\* ------------------------------------------------------------------ bounds
\* Chunks one backend stream may deliver before it has to end or fail.
MaxChunks == 2
\* The first MaxFreeTurns turns of an invocation are free: the backend streams
\* any chunks and every call_tool returns or raises.  In a later turn the
\* backend streams one chunk and call_tool returns;
\* the backend can fail at any point of any turn.
MaxFreeTurns == 1
\* Session objects (an MCPSession with its StdioConnector) ever constructed.
MaxSessions == 3
\* Calls made on the client's and the sessions' methods.
MaxOps == 5
\* Calls made on the client while an invocation of the loop is suspended.
MaxInterleaved == 1
\* Background query units (threads running process_query_thread).
MaxUnits == 2
\* Segments (a tool-call pair, a phrase, a word) of a text given to the
\* extractor.
MaxSegments == 2
\* Items of a list content given to format_tool_result.
MaxItems == 2
\* Turns of an invocation that is followed through its first turns only.
MaxShortTurns == 3
\* Chunks the stream of one background run delivers before it ends.
MaxYielded == 1

\* --------------------------------------------------------- program values
\* client.py:199
max_turns == 10

Piece(k, name, params) == [k |-> k, name |-> name, params |-> params]

\* The user's query (client.py:196).
Query == <<Piece("query", "", "")>>

\* A tool of a server's list (mcp.types.Tool as read at client.py:88-98 and
\* execution.py:86-97): its name and the 'required' names of its inputSchema
\* (none when it has no schema or no 'required').
\* A tool of a session's list: its name and the fields its inputSchema
\* requires (execution.py:87-97); a tool without a schema requires none.
Tool(name, required) == [name |-> name, required |-> required]

\* The tool list of the connected session (client.py:192).
Tools == <<Tool("add", {})>>

\* Pieces of model text: plain text, a TOOL:/PARAMETERS: pair naming a tool
\* with a parameters span that is a JSON object ("json") or not, and the
\* phrase "use the <name> tool".
Text == Piece("text", "", "")
Pair(name, params) == Piece("pair", name, params)
Mention(name) == Piece("mention", name, "")
\* The chunks a backend streams to the loop: plain text or a marker.
Chunks == {Text, Pair("add", "json")}

\* client.py:77-107: the catalog text rendered from the tool list.
tool_info == <<Piece("tool_info", "", "")>>
None == <<>>

\* The implementations of BaseLLM (llm/base.py) the loop can drive through
\* self.llm: the client constructs a GptLLM (client.py:30), GeminiLLM is the
\* other adapter of the package (client.py:10).
Adapters == {"GptLLM", "GeminiLLM"}

VARIABLES
    pc,            \* where process_query_streaming is suspended
    turn_count,    \* client.py:200
    messages,      \* client.py:196, the conversation
    llm_response,  \* client.py:206
    tool_calls,    \* client.py:225
    call_idx,      \* position of the for loop of client.py:232 in tool_calls
    output,        \* every chunk the generator has yielded to its caller
    llm,           \* the class of self.llm
    adapter,       \* state of the adapter's generate_streaming generator
    adapter_out,   \* the chunks that generator has yielded in this turn
    request,       \* the backend request _prepare_messages built this turn
    info_arg,      \* the tool_info argument of this turn's generate_streaming
    gen_calls,     \* number of generate_streaming invocations so far
    started,       \* number of call_tool invocations begun in this batch
    outcomes,      \* how each call_tool of this batch ended, in order
    exit_via,      \* which exit of the while loop was taken
    tools,         \* client.py:192, the tool list read at the start
    start_session, \* the session that was self.active_session at the start
    call_target,   \* what self.active_session was at client.py:238 (0: None)
    active_session,      \* client.py:28, a session id or 0 for None
    active_server_name,  \* client.py:29
    sess,          \* the session objects, by id
    ops,           \* number of calls made on the client and the sessions
    last_op,       \* the last such call: what it was and how it ended
    unit,          \* app.py:146, the background query units, by id
    pq,            \* client.py:109, one invocation of process_query
    text_in,       \* extraction.py:14, the text given to extract_tool_calls
    tools_in,      \* extraction.py:14, the available_tools given to it
    extracted,     \* extraction.py:52, what it returned
    schema,        \* execution.py:90, the inputSchema of the tool validated
    args_in,       \* execution.py:75, the arguments given to validate_tool_args
    validated,     \* execution.py:74-176, what it returned
    result_in,     \* execution.py:38, the result given to format_tool_result
    formatted,     \* execution.py:38-71, what it returned
    is_processing, \* app.py:40, st.session_state.is_processing
    chat_history,  \* app.py:38, st.session_state.chat_history
    response_file, \* app.py:149, the session's response file (none: <<>>)
    status_file,   \* app.py:150, the session's status file (none: <<>>)
    thread,        \* app.py:146, the runs of process_query_thread, by query
    poll           \* app.py:380-421, the script run that polls the files

vars == <<pc, turn_count, messages, llm_response, tool_calls, call_idx, output,
          llm, adapter, adapter_out, request, info_arg, gen_calls, started,
          outcomes, exit_via, tools, start_session, call_target,
          active_session, active_server_name, sess, ops, last_op,
          unit, pq, text_in, tools_in, extracted, schema, args_in, validated,
          result_in, formatted, is_processing, chat_history, response_file,
          status_file, thread, poll>>

\* The background units, the non-streaming query and the two pure functions.
appVars == <<unit, pq>>
fnVars == <<text_in, tools_in, extracted, schema, args_in, validated,
           result_in, formatted>>

\* The UI session's state, its two files, its threads and its polling loop.
uiVars == <<is_processing, chat_history, response_file, status_file, thread,
           poll>>

\* The client and its sessions.
clientVars == <<active_session, active_server_name, sess, ops, last_op>>
\* The state of one process_query_streaming invocation and of its adapter.
queryVars == <<pc, turn_count, messages, llm_response, tool_calls, call_idx,
               output, llm, adapter, adapter_out, request, info_arg, gen_calls,
               started, outcomes, exit_via, tools, start_session, call_target>>

loopVars == <<turn_count, messages, llm_response, tool_calls, call_idx>>
adapterVars == <<adapter, adapter_out, request, info_arg, gen_calls>>

\* The current turn is one of the free turns.
Free == turn_count <= MaxFreeTurns

Msg(role, content) == [role |-> role, content |-> content]

\* ------------------------------------------------------------ the extractor
RECURSIVE primary_matches(_)
\* extraction.py:28-43: one call per TOOL:/PARAMETERS: pair, in document
\* order; a span that does not parse as JSON gives empty parameters.
primary_matches(text) ==
    IF text = <<>> THEN <<>>
    ELSE LET p == Head(text)
             rest == primary_matches(Tail(text))
         IN IF p.k = "pair"
            THEN <<[name |-> p.name,
                    args |-> IF p.params = "json" THEN "parsed" ELSE "empty"]>>
                 \o rest
            ELSE rest

RECURSIVE fallback_matches(_, _)
\* extraction.py:47-50: one call with empty parameters per known tool whose
\* phrase occurs in the text, in tool-list order.
fallback_matches(text, tool_list) ==
    IF tool_list = <<>> THEN <<>>
    ELSE LET t == Head(tool_list)
             rest == fallback_matches(text, Tail(tool_list))
         IN IF \E i \in 1..Len(text) : text[i].k = "mention" /\ text[i].name = t.name
            THEN <<[name |-> t.name, args |-> "empty"]>> \o rest
            ELSE rest

\* extraction.py:13-52
extract_tool_calls(text, tool_list) ==
    LET calls == primary_matches(text)
    IN IF calls = <<>> /\ tool_list # <<>>
       THEN fallback_matches(text, tool_list)
       ELSE calls

\* ------------------------------------------------------------- the adapters
RECURSIVE gpt_convert(_, _, _)
\* gpt4o.py:61-93, the loop over the input messages from index i on.
gpt_convert(msgs, i, info) ==
    IF i > Len(msgs) THEN <<>>
    ELSE LET msg == msgs[i]
             rest == gpt_convert(msgs, i + 1, info)
         IN IF msg.role = "user"
            THEN <<Msg("user",
                       IF i = 1 /\ info # None
                       THEN msg.content \o <<Piece("newlines", "", "")>> \o info
                       ELSE msg.content)>> \o rest
            ELSE IF msg.role = "model" \/ msg.role = "assistant"
            THEN IF msg.content # <<>>
                 THEN <<Msg("assistant", msg.content)>> \o rest
                 ELSE rest
            ELSE IF msg.role = "tool"
            THEN <<Msg("user", <<Piece("TOOL RESULT: ", "", "")>> \o msg.content)>>
                 \o rest
            ELSE rest

\* gpt4o.py:45-95
gpt_prepare_messages(msgs, info) ==
    <<Msg("system", <<Piece("system_prompt", "", "")>>)>> \o gpt_convert(msgs, 1, info)

RECURSIVE gemini_convert(_, _, _)
\* gemini.py:53-100, the loop over the input messages from index i on.
gemini_convert(msgs, i, info) ==
    IF i > Len(msgs) THEN <<>>
    ELSE LET msg == msgs[i]
             rest == gemini_convert(msgs, i + 1, info)
         IN IF msg.role = "tool"
            THEN <<Msg("user", <<Piece("Tool result: ", "", "")>> \o msg.content)>>
                 \o rest
            ELSE IF msg.role = "user"
            THEN <<Msg("user",
                       IF i = 1 /\ info # None
                       THEN msg.content \o info
                       ELSE msg.content)>> \o rest
            ELSE IF msg.role = "model"
            THEN IF msg.content # <<>>
                 THEN <<Msg("model", msg.content)>> \o rest
                 ELSE rest
            ELSE rest

\* gemini.py:39-102
gemini_prepare_messages(msgs, info) == gemini_convert(msgs, 1, info)

\* The request the adapter of class cls builds (gpt4o.py:142, gemini.py:135).
prepare_messages(cls, msgs, info) ==
    IF cls = "GptLLM" THEN gpt_prepare_messages(msgs, info)
    ELSE gemini_prepare_messages(msgs, info)

\* ------------------------------------------------------- tool execution
RECURSIVE find_tool_by_name(_, _)
\* execution.py:178-192: the first tool of the list with the name, or None.
find_tool_by_name(tool_list, tool_name) ==
    IF tool_list = <<>> THEN None
    ELSE IF Head(tool_list).name = tool_name THEN Head(tool_list)
    ELSE find_tool_by_name(Tail(tool_list), tool_name)

\* The fields of an extracted call's arguments: the object of a well-formed
\* PARAMETERS block has the field a, the fallback's and a malformed block's
\* arguments are the empty dict (extraction.py:30-33, 49-50).
arg_fields(args) == IF args = "parsed" THEN {"a"} ELSE {}

\* execution.py:74-176: is_valid of validate_tool_args, as far as the
\* required fields decide it (execution.py:93-97).
validate_tool_args(tool, args) == tool.required \subseteq arg_fields(args)

\* ------------------------------------------------- sessions and connectors
\* config.py:50-51, client.py:46-49: the names the configuration resolves to a
\* command; any other name makes connect_to_server raise ValueError.
Servers == {"a", "b"}
ServerNames == Servers \cup {"unknown"}

SessionIds == 1..MaxSessions

\* A session id not yet constructed.  A constructed session is an MCPSession
\* with its StdioConnector:
\*   connected, session, stdio   stdio.py:26, base.py:18-20 (session: 0 is
\*                               None, else the place of the ClientSession
\*                               in the exit stack)
\*   stack                       stdio.py:25, the contexts the AsyncExitStack
\*                               has entered and not yet closed
\*   ctools                      base.py:19, the connector's _tools
\*   tools, info                 session.py:16-17, tools and whether
\*                               session_info is set
\*   by_client, server           who constructed it, and for which server
Unmade ==
    [made |-> FALSE, by_client |-> FALSE, server |-> "none", connected |-> FALSE,
     session |-> 0, stdio |-> FALSE, stack |-> <<>>, ctools |-> <<>>,
     tools |-> <<>>, info |-> FALSE]

\* session.py:9-17 with stdio.py:13-27 and base.py:16-20: the constructors.
NewSession(by_client, server) ==
    [Unmade EXCEPT !.made = TRUE, !.by_client = by_client, !.server = server]

\* How an attempt to open the transport can end: the subprocess transport
\* cannot be entered, it is entered but the ClientSession is not, or both are.
ConnectOutcomes == {"spawn_fails", "session_fails", "ok"}

\* Mutant: connect has no early return for a connected connector.
stdio_connect_again(c, outcome) ==
    IF outcome = "spawn_fails" THEN [c |-> c, res |-> "error"]
    ELSE IF outcome = "session_fails"
    THEN [c |-> [c EXCEPT !.stdio = TRUE, !.stack = Append(@, "stdio")],
          res |-> "error"]
    ELSE [c |-> [c EXCEPT !.stdio = TRUE,
                          !.stack = @ \o <<"stdio", "client">>,
                          !.session = Len(c.stack) + 2,
                          !.connected = TRUE],
          res |-> "ok"]

\* stdio.py:29-57 (through session.py:28-30): the connector after connect()
\* and how connect ended.
stdio_connect(c, outcome) ==
    IF c.connected
    THEN IF c.session = 0
         THEN [c |-> c, res |-> "error"]
         ELSE [c |-> c, res |-> "ok"]
    ELSE IF outcome = "spawn_fails" THEN [c |-> c, res |-> "error"]
    ELSE IF outcome = "session_fails"
    THEN [c |-> [c EXCEPT !.stdio = TRUE, !.stack = Append(@, "stdio")],
          res |-> "error"]
    ELSE [c |-> [c EXCEPT !.stdio = TRUE,
                          !.stack = @ \o <<"stdio", "client">>,
                          !.session = Len(c.stack) + 2,
                          !.connected = TRUE],
          res |-> "ok"]

\* Mutant: disconnect raises on a connector that is not connected.
stdio_disconnect_strict(c) ==
    IF ~c.connected THEN [c |-> c, res |-> "error"]
    ELSE [c |-> [c EXCEPT !.stack = <<>>, !.session = 0, !.stdio = FALSE,
                          !.connected = FALSE],
          res |-> "ok"]

\* stdio.py:59-68 (through session.py:32-34): the connector after
\* disconnect(); aclose leaves every context the stack had entered.
stdio_disconnect(c) ==
    IF ~c.connected THEN [c |-> c, res |-> "ok"]
    ELSE [c |-> [c EXCEPT !.stack = <<>>, !.session = 0, !.stdio = FALSE,
                          !.connected = FALSE],
          res |-> "ok"]

InitOutcomes == {"fails", "ok"}

\* base.py:50-69 with session.py:36-44: initialize on a connector whose server
\* lists the tools tl; the protocol's initialize or list_tools can raise.
session_initialize(c, outcome, tl) ==
    IF c.session = 0 THEN [c |-> c, res |-> "not_connected"]
    ELSE IF outcome = "fails" THEN [c |-> c, res |-> "error"]
    ELSE [c |-> [c EXCEPT !.ctools = tl, !.info = TRUE, !.tools = tl],
          res |-> "ok"]

CallOutcomes == {"returned", "raised"}

\* base.py:71-87 (through session.py:46-56): how call_tool ends and whether
\* the call was handed to the transport's ClientSession.
session_call_tool(c, outcome) ==
    IF c.session = 0 THEN [res |-> "not_connected", reached |-> FALSE]
    ELSE [res |-> outcome, reached |-> TRUE]

\* session.py:58-65: the accessor returns self.tools, whatever the state.
available_tools(c) == [res |-> "ok", ret |-> c.tools]

\* The record of a call on the client or on a session: the method, the
\* session it was made on, how it ended, whether it reached the transport,
\* what it returned (a tool list), whether the connector was connected before
\* it, and whether the call before it was the same method on the same session.
Op(op, sid, res, reached, ret, pre) ==
    [op |-> op, sid |-> sid, res |-> res, reached |-> reached, ret |-> ret,
     pre |-> pre, twice |-> (last_op.op = op /\ last_op.sid = sid)]
NoOp ==
    [op |-> "none", sid |-> 0, res |-> "ok", reached |-> FALSE, ret |-> <<>>,
     pre |-> FALSE, twice |-> FALSE]

\* The tool lists a server can answer list_tools with: the tool the model
\* names, a list without it, and the tool with a required field no extracted
\* call supplies.
ToolLists == {Tools, <<Tool("sub", {})>>, <<Tool("add", {"b"})>>}

\* A session the client has connected and initialized for server "a".
ReadySession(tl) ==
    session_initialize(
        stdio_connect(NewSession(TRUE, "a"), "ok").c, "ok", tl).c

\* The client after construction (client.py:27-30).
FreshClient ==
    /\ active_session = 0
    /\ active_server_name = "none"
    /\ sess = [i \in SessionIds |-> Unmade]
    /\ ops = 0
    /\ last_op = NoOp

\* The client after connect_to_server("a") has returned, the server listing
\* the tools tl.
ConnectedClient(tl) ==
    /\ active_session = 1
    /\ active_server_name = "a"
    /\ sess = [i \in SessionIds |-> IF i = 1 THEN ReadySession(tl) ELSE Unmade]
    /\ ops = 0
    /\ last_op = NoOp

\* ---------------------------------------------------------------- the loop
Yield(chunk) == output' = Append(output, chunk)

Units == 1..MaxUnits

\* A unit that has not been started: where it is in process_query_thread, the
\* server_name it was given, its own client's active_session (0: None, or no
\* client yet), the sessions that client constructed, the sessions its query
\* was run on, which handler it went through, and the disconnect() calls of
\* its finally block.
IdleUnit ==
    [pc |-> "idle", server |-> "none", active_session |-> 0, made |-> {},
     used |-> {}, path |-> "none", disconnects |-> 0]

\* No process_query invocation yet: where it is, its locals messages, tools,
\* response_text, tool_calls and final_text, the request its last generate
\* call sent, the position of its for loop, and whether a generate call has
\* failed.
IdlePq ==
    [pc |-> "idle", messages |-> <<>>, tools |-> <<>>, request |-> <<>>,
     response_text |-> <<>>, tool_calls |-> <<>>, idx |-> 0,
     final_text |-> <<>>, generate_failed |-> FALSE]

\* No unit has been started and process_query has not been called.
\* A run of process_query_thread that has not been started: where it is, the
\* chunks in its local full_response, its local current_tool, which handler
\* it went through, and the whole response it produced (none until it is
\* determined).
IdleThread ==
    [pc |-> "idle", full_response |-> <<>>, current_tool |-> "None",
     path |-> "none", final |-> <<>>]

\* The script is not in the polling loop: where it is, the query whose answer
\* it waits for (0: none), and its local current_response.
IdlePoll == [pc |-> "idle", q |-> 0, current_response |-> <<>>]

\* app.py:37-47: a new UI session; no file of its session_id exists.
IdleUi ==
    /\ is_processing = FALSE
    /\ chat_history = <<>>
    /\ response_file = <<>>
    /\ status_file = <<>>
    /\ thread = [t \in Units |-> IdleThread]
    /\ poll = IdlePoll

IdleApp == unit = [u \in Units |-> IdleUnit] /\ pq = IdlePq /\ IdleUi

\* The function has not returned yet.
NotRun == [done |-> FALSE]

\* Neither pure function has been given an input.
IdleFn ==
    /\ text_in = <<>>
    /\ tools_in = <<>>
    /\ extracted = NotRun
    /\ schema = <<>>
    /\ args_in = <<>>
    /\ validated = NotRun
    /\ result_in = <<>>
    /\ formatted = NotRun

\* No invocation of process_query_streaming has been made yet.
QueryInit ==
    /\ pc = "start"
    /\ turn_count = 0
    /\ messages = <<>>
    /\ llm_response = <<>>
    /\ tool_calls = <<>>
    /\ call_idx = 0
    /\ output = <<>>
    /\ llm \in Adapters
    /\ adapter = "none"
    /\ adapter_out = <<>>
    /\ request = <<>>
    /\ info_arg = None
    /\ gen_calls = 0
    /\ started = 0
    /\ outcomes = <<>>
    /\ exit_via = "none"
    /\ tools = <<>>
    /\ start_session = 0
    /\ call_target = 0

\* A client connected to a server, before a query.
Init == QueryInit /\ ConnectedClient(Tools) /\ IdleApp /\ IdleFn

\* A client connected to a server with any of the tool lists, before a query.
ToolInit ==
    QueryInit /\ IdleApp /\ IdleFn /\ \E tl \in ToolLists : ConnectedClient(tl)

\* The chunks the loop itself yields.
Sep == Piece("sep", "", "")                         \* client.py:210
UsingTool(call) == Piece("using_tool", call.name, call.args)   \* client.py:234
ResultChunk == Piece("result", "", "")              \* client.py:242
ToolErrorChunk == Piece("tool_error", "", "")       \* client.py:249-250
LoopErrorChunk == Piece("loop_error", "", "")       \* client.py:218
MaxTurnsNotice == Piece("max_turns", "", "")        \* client.py:258
\* The chunk GptLLM yields when its backend fails (gpt4o.py:158).
AdapterErrorChunk == Piece("adapter_error", "", "")

\* execution.py:37-71 applied to what call_tool returned.
result_text == <<Piece("result_text", "", "")>>
\* str(e) of the exception call_tool raised.
error_text == <<Piece("exception", "", "")>>

\* client.py:245-246
ResultMessage(tool_name) ==
    Msg("user", <<Piece("TOOL RESULT: ", tool_name, "")>> \o result_text)
\* Mutant: the message of a failed call is tagged like a result.
ErrorMessage_as_result(tool_name) ==
    Msg("user", <<Piece("TOOL RESULT: ", tool_name, "")>> \o error_text)

\* client.py:253-254
ErrorMessage(tool_name) ==
    Msg("user", <<Piece("TOOL ERROR: ", tool_name, "")>> \o error_text)

\* Mutant: the catalog is passed on every turn.
tool_info_arg_always(t) == tool_info

\* client.py:213: the second argument of generate_streaming in turn t.
tool_info_arg(t) == IF t = 1 THEN tool_info ELSE None

\* Mutant: the while condition lets one more turn through.
while_cond_le(t) == t <= max_turns

\* client.py:202: the while condition.
while_cond(t) == t < max_turns

\* Mutant: the notice is given only past the maximum.
notice_cond_gt(t) == t > max_turns

\* Mutant: the notice is given after every loop exit.
notice_cond_always(t) == t >= 0

\* client.py:257: the condition of the notice after the loop.
notice_cond(t) == t >= max_turns

\* Mutant: the adapter adds the catalog to the caller's first message in place.
prepare_messages_input_inplace(cls, msgs, info) ==
    IF info # None /\ msgs # <<>> /\ msgs[1].role = "user"
    THEN [msgs EXCEPT ![1].content = @ \o info]
    ELSE msgs

\* gpt4o.py:61-70 / gemini.py:53-55, 86-94: what _prepare_messages leaves in
\* the list it was given: content is rebound to a new string and the request
\* is built from new dicts, the input list and its dicts are not written.
prepare_messages_input(cls, msgs, info) == msgs

\* client.py:188-200: the call, up to the first test of the while condition;
\* without an active session it raises RuntimeError.
Start ==
    /\ pc = "start"
    /\ IF active_session = 0
       THEN /\ pc' = "end"
            /\ exit_via' = "no_session"
            /\ UNCHANGED <<messages, turn_count, tools, start_session>>
       ELSE /\ tools' = available_tools(sess[active_session]).ret
            /\ start_session' = active_session
            /\ messages' = <<Msg("user", Query)>>
            /\ turn_count' = 0
            /\ pc' = "while"
            /\ UNCHANGED exit_via
    /\ UNCHANGED <<llm_response, tool_calls, call_idx, output, llm, adapterVars,
                   started, outcomes, call_target, clientVars>>
    /\ UNCHANGED <<appVars, fnVars, uiVars>>

\* client.py:202-210: the while condition; in the body the turn count goes
\* up and every turn but the first yields a separator.
LoopHead ==
    /\ pc = "while"
    /\ IF while_cond(turn_count)
       THEN /\ turn_count' = turn_count + 1
            /\ llm_response' = <<>>
            /\ IF turn_count' > 1 THEN Yield(Sep) ELSE UNCHANGED output
            /\ pc' = "generate"
            /\ UNCHANGED exit_via
       ELSE /\ pc' = "after_loop"
            /\ exit_via' = "cond"
            /\ UNCHANGED <<turn_count, llm_response, output>>
    /\ UNCHANGED <<messages, tool_calls, call_idx, llm, adapterVars, started,
                   outcomes>>
    /\ UNCHANGED <<tools, start_session, call_target, clientVars>>
    /\ UNCHANGED <<appVars, fnVars, uiVars>>

\* client.py:213 with gpt4o.py:141-151 / gemini.py:134-137: the loop calls
\* generate_streaming, the adapter prepares the request and opens the stream.
BeginStream ==
    /\ pc = "generate"
    /\ info_arg' = tool_info_arg(turn_count)
    /\ request' = prepare_messages(llm, messages, info_arg')
    /\ messages' = prepare_messages_input(llm, messages, info_arg')
    /\ gen_calls' = gen_calls + 1
    /\ adapter' = "open"
    /\ adapter_out' = <<>>
    /\ pc' = "streaming"
    /\ UNCHANGED <<turn_count, llm_response, tool_calls, call_idx, output, llm,
                   started, outcomes, exit_via>>
    /\ UNCHANGED <<tools, start_session, call_target, clientVars>>
    /\ UNCHANGED <<appVars, fnVars, uiVars>>

\* gpt4o.py:153-155 / gemini.py:139-141 with client.py:213-215: the backend
\* delivers a chunk with content, the adapter yields it, the loop adds it to
\* llm_response and yields it to its caller.
StreamChunk ==
    /\ pc = "streaming"
    /\ adapter = "open"
    /\ Len(adapter_out) < MaxChunks
    /\ \E c \in Chunks :
          /\ Free \/ adapter_out = <<>>
          /\ adapter_out' = Append(adapter_out, c)
          /\ llm_response' = Append(llm_response, c)
          /\ Yield(c)
    /\ UNCHANGED <<pc, turn_count, messages, tool_calls, call_idx, llm, adapter,
                   request, info_arg, gen_calls, started, outcomes, exit_via>>
    /\ UNCHANGED <<tools, start_session, call_target, clientVars>>
    /\ UNCHANGED <<appVars, fnVars, uiVars>>

\* Mutant: the handler yields the error and goes back to wait for the stream.
OnAdapterException_wait ==
    /\ Yield(LoopErrorChunk)
    /\ pc' = "streaming"
    /\ UNCHANGED exit_via

\* Mutant: the handler yields the error and continues with the next turn.
OnAdapterException_continue ==
    /\ Yield(LoopErrorChunk)
    /\ pc' = "while"
    /\ UNCHANGED exit_via

\* client.py:217-219: the handler of an exception out of the stream.
OnAdapterException ==
    /\ Yield(LoopErrorChunk)
    /\ exit_via' = "except"
    /\ pc' = "after_loop"

\* gpt4o.py:156-158 with client.py:213-215: the backend fails, GptLLM yields
\* the error as a chunk, which the loop treats as any other chunk.
GptStreamFail ==
    /\ pc = "streaming"
    /\ llm = "GptLLM"
    /\ adapter = "open"
    /\ adapter' = "errored"
    /\ adapter_out' = Append(adapter_out, AdapterErrorChunk)
    /\ llm_response' = Append(llm_response, AdapterErrorChunk)
    /\ Yield(AdapterErrorChunk)
    /\ UNCHANGED <<pc, turn_count, messages, tool_calls, call_idx, llm, request,
                   info_arg, gen_calls, started, outcomes, exit_via>>
    /\ UNCHANGED <<tools, start_session, call_target, clientVars>>
    /\ UNCHANGED <<appVars, fnVars, uiVars>>

\* gpt4o.py:160 with client.py:217-219: resumed after the error chunk,
\* GptLLM re-raises and the loop's handler runs.
GptReraise ==
    /\ pc = "streaming"
    /\ llm = "GptLLM"
    /\ adapter = "errored"
    /\ adapter' = "raised"
    /\ OnAdapterException
    /\ UNCHANGED <<loopVars, llm, adapter_out, request, info_arg, gen_calls,
                   started, outcomes>>
    /\ UNCHANGED <<tools, start_session, call_target, clientVars>>
    /\ UNCHANGED <<appVars, fnVars, uiVars>>

\* gemini.py:137-141 with client.py:217-219: GeminiLLM has no handler, the
\* backend's exception leaves the generator and the loop's handler runs.
GeminiStreamFail ==
    /\ pc = "streaming"
    /\ llm = "GeminiLLM"
    /\ adapter = "open"
    /\ adapter' = "raised"
    /\ OnAdapterException
    /\ UNCHANGED <<loopVars, llm, adapter_out, request, info_arg, gen_calls,
                   started, outcomes>>
    /\ UNCHANGED <<tools, start_session, call_target, clientVars>>
    /\ UNCHANGED <<appVars, fnVars, uiVars>>

\* Mutant: the for loop is left after its first call.
NextCall_first_only(idx, calls) ==
    IF idx < Len(calls) /\ idx = 0
    THEN /\ call_idx' = idx + 1
         /\ Yield(UsingTool(calls[idx + 1]))
         /\ pc' = "call_tool"
    ELSE /\ call_idx' = idx
         /\ UNCHANGED output
         /\ pc' = "while"

\* Mutant: the notice of a call is yielded together with its result.
NextCall_no_notice(idx, calls) ==
    IF idx < Len(calls)
    THEN /\ call_idx' = idx + 1
         /\ UNCHANGED output
         /\ pc' = "call_tool"
    ELSE /\ call_idx' = idx
         /\ UNCHANGED output
         /\ pc' = "while"

\* client.py:232-234 (and the end of the for loop): the next call's notice
\* is yielded, or the batch is over and control returns to the while test.
NextCall(idx, calls) ==
    IF idx < Len(calls)
    THEN /\ call_idx' = idx + 1
         /\ Yield(UsingTool(calls[idx + 1]))
         /\ pc' = "call_tool"
    ELSE /\ call_idx' = idx
         /\ UNCHANGED output
         /\ pc' = "while"

\* client.py:222-234: the stream ended; the model message is appended, the
\* calls are extracted, and the loop breaks or starts on the batch.
StreamEnd ==
    /\ pc = "streaming"
    /\ adapter = "open"
    /\ Free \/ adapter_out # <<>>
    /\ adapter' = "done"
    /\ messages' = Append(messages, Msg("model", llm_response))
    /\ tool_calls' = extract_tool_calls(llm_response, tools)
    /\ started' = 0
    /\ outcomes' = <<>>
    /\ IF tool_calls' = <<>>
       THEN /\ pc' = "after_loop"
            /\ exit_via' = "no_calls"
            /\ UNCHANGED <<call_idx, output>>
       ELSE /\ NextCall(0, tool_calls')
            /\ UNCHANGED exit_via
    /\ UNCHANGED <<turn_count, llm_response, llm, adapter_out, request, info_arg,
                   gen_calls>>
    /\ UNCHANGED <<tools, start_session, call_target, clientVars>>
    /\ UNCHANGED <<appVars, fnVars, uiVars>>

\* client.py:238: call_tool is invoked on what self.active_session is now,
\* and awaited.
CallTool ==
    /\ pc = "call_tool"
    /\ started' = started + 1
    /\ call_target' = active_session
    /\ pc' = "await_tool"
    /\ UNCHANGED <<loopVars, output, llm, adapterVars, outcomes, exit_via,
                   tools, start_session, clientVars>>
    /\ UNCHANGED <<appVars, fnVars, uiVars>>

\* The awaited call can return: it was made on a session whose connector
\* hands it to the transport (base.py:84-87).
CanReturn ==
    /\ call_target # 0
    /\ session_call_tool(sess[call_target], "returned").reached

\* The awaited call can raise: the transport may raise in a free turn, None
\* has no call_tool, and a connector without a session raises (base.py:84-85).
CanRaise == Free \/ ~CanReturn

\* client.py:238-242: call_tool returned; the result chunk is yielded.
ToolReturns ==
    /\ pc = "await_tool"
    /\ CanReturn
    /\ outcomes' = Append(outcomes, "returned")
    /\ Yield(ResultChunk)
    /\ pc' = "append_result"
    /\ UNCHANGED <<loopVars, llm, adapterVars, started, exit_via>>
    /\ UNCHANGED <<tools, start_session, call_target, clientVars>>
    /\ UNCHANGED <<appVars, fnVars, uiVars>>

\* Mutant: an exception of call_tool is not caught and ends the generator.
ToolRaises_fatal ==
    /\ pc = "await_tool"
    /\ CanRaise
    /\ outcomes' = Append(outcomes, "raised")
    /\ pc' = "end"
    /\ UNCHANGED <<loopVars, output, llm, adapterVars, started, exit_via>>
    /\ UNCHANGED <<tools, start_session, call_target, clientVars>>
    /\ UNCHANGED <<appVars, fnVars, uiVars>>

\* client.py:248-250: call_tool raised; the error chunk is yielded.
ToolRaises ==
    /\ pc = "await_tool"
    /\ CanRaise
    /\ outcomes' = Append(outcomes, "raised")
    /\ Yield(ToolErrorChunk)
    /\ pc' = "append_error"
    /\ UNCHANGED <<loopVars, llm, adapterVars, started, exit_via>>
    /\ UNCHANGED <<tools, start_session, call_target, clientVars>>
    /\ UNCHANGED <<appVars, fnVars, uiVars>>

\* client.py:245-246, then the for loop goes on.
AppendResult ==
    /\ pc = "append_result"
    /\ messages' = Append(messages, ResultMessage(tool_calls[call_idx].name))
    /\ NextCall(call_idx, tool_calls)
    /\ UNCHANGED <<turn_count, llm_response, tool_calls, llm, adapterVars,
                   started, outcomes, exit_via>>
    /\ UNCHANGED <<tools, start_session, call_target, clientVars>>
    /\ UNCHANGED <<appVars, fnVars, uiVars>>

\* client.py:253-254, then the for loop goes on.
AppendError ==
    /\ pc = "append_error"
    /\ messages' = Append(messages, ErrorMessage(tool_calls[call_idx].name))
    /\ NextCall(call_idx, tool_calls)
    /\ UNCHANGED <<turn_count, llm_response, tool_calls, llm, adapterVars,
                   started, outcomes, exit_via>>
    /\ UNCHANGED <<tools, start_session, call_target, clientVars>>
    /\ UNCHANGED <<appVars, fnVars, uiVars>>

\* client.py:256-258: after the loop, whichever way it was left.
AfterLoop ==
    /\ pc = "after_loop"
    /\ IF notice_cond(turn_count) THEN Yield(MaxTurnsNotice) ELSE UNCHANGED output
    /\ pc' = "end"
    /\ UNCHANGED <<loopVars, llm, adapterVars, started, outcomes, exit_via>>
    /\ UNCHANGED <<tools, start_session, call_target, clientVars>>
    /\ UNCHANGED <<appVars, fnVars, uiVars>>

\* ---------------------------------------- calls on sessions and the client
\* What list_tools answers on each server.
ServerTools(server) == IF server = "a" THEN Tools ELSE <<Tool("sub", {})>>

\* The session ids no object has been constructed for, and the next of them.
FreeIds == {i \in SessionIds : ~sess[i].made}
NextId == CHOOSE i \in FreeIds : \A j \in FreeIds : i <= j

\* The sessions a caller other than the client has constructed.
Direct == {i \in SessionIds : sess[i].made /\ ~sess[i].by_client}

\* session.py:9-17: MCPSession(StdioConnector(...)) is constructed.
SessionNew ==
    /\ ops < MaxOps
    /\ FreeIds # {}
    /\ sess' = [sess EXCEPT ![NextId] = NewSession(FALSE, "a")]
    /\ last_op' = Op("new", NextId, "ok", FALSE, <<>>, FALSE)
    /\ ops' = ops + 1
    /\ UNCHANGED <<active_session, active_server_name, queryVars>>
    /\ UNCHANGED <<appVars, fnVars, uiVars>>

\* session.py:28-30: connect() on a session.
SessionConnect ==
    /\ ops < MaxOps
    /\ \E s \in Direct, o \in ConnectOutcomes :
          LET r == stdio_connect(sess[s], o)
          IN /\ sess' = [sess EXCEPT ![s] = r.c]
             /\ last_op' = Op("connect", s, r.res, FALSE, <<>>, sess[s].connected)
    /\ ops' = ops + 1
    /\ UNCHANGED <<active_session, active_server_name, queryVars>>
    /\ UNCHANGED <<appVars, fnVars, uiVars>>

\* session.py:32-34: disconnect() on a session.
SessionDisconnect ==
    /\ ops < MaxOps
    /\ \E s \in Direct :
          LET r == stdio_disconnect(sess[s])
          IN /\ sess' = [sess EXCEPT ![s] = r.c]
             /\ last_op' = Op("disconnect", s, r.res, FALSE, <<>>,
                              sess[s].connected)
    /\ ops' = ops + 1
    /\ UNCHANGED <<active_session, active_server_name, queryVars>>
    /\ UNCHANGED <<appVars, fnVars, uiVars>>

\* session.py:36-44: initialize() on a session.
SessionInitialize ==
    /\ ops < MaxOps
    /\ \E s \in Direct, o \in InitOutcomes :
          LET r == session_initialize(sess[s], o, ServerTools(sess[s].server))
          IN /\ sess' = [sess EXCEPT ![s] = r.c]
             /\ last_op' = Op("initialize", s, r.res, FALSE, <<>>,
                              sess[s].connected)
    /\ ops' = ops + 1
    /\ UNCHANGED <<active_session, active_server_name, queryVars>>
    /\ UNCHANGED <<appVars, fnVars, uiVars>>

\* session.py:46-56: call_tool() on a session.
SessionCallTool ==
    /\ ops < MaxOps
    /\ \E s \in Direct, o \in CallOutcomes :
          LET r == session_call_tool(sess[s], o)
          IN last_op' = Op("call_tool", s, r.res, r.reached, <<>>,
                           sess[s].connected)
    /\ ops' = ops + 1
    /\ UNCHANGED <<active_session, active_server_name, sess, queryVars>>
    /\ UNCHANGED <<appVars, fnVars, uiVars>>

\* session.py:58-65: the available_tools accessor is read.
SessionAvailableTools ==
    /\ ops < MaxOps
    /\ \E s \in Direct :
          LET r == available_tools(sess[s])
          IN last_op' = Op("available_tools", s, r.res, FALSE, r.ret,
                           sess[s].connected)
    /\ ops' = ops + 1
    /\ UNCHANGED <<active_session, active_server_name, sess, queryVars>>
    /\ UNCHANGED <<appVars, fnVars, uiVars>>

\* client.py:59-65: the session connect_to_server constructs, connects and
\* initializes, and how that ended.
connect_session(name, co, io) ==
    LET r1 == stdio_connect(NewSession(TRUE, name), co)
    IN IF r1.res = "ok"
       THEN session_initialize(r1.c, io, ServerTools(name))
       ELSE r1

\* client.py:32-75: connect_to_server(name); the transport's connect ends as
\* co, the protocol's initialize as io.  The new session is assigned to
\* active_session before it is connected (client.py:63), whatever the client
\* held before; the name is assigned after initialize (client.py:66).
ConnectToServer(name, co, io) ==
    /\ ops < MaxOps
    /\ IF name \notin Servers
       THEN /\ last_op' = Op("connect_to_server", 0, "error", FALSE, <<>>, FALSE)
            /\ UNCHANGED <<active_session, active_server_name, sess>>
       ELSE /\ FreeIds # {}
            /\ LET n == NextId
                   r2 == connect_session(name, co, io)
               IN /\ sess' = [sess EXCEPT ![n] = r2.c]
                  /\ active_session' = n
                  /\ active_server_name' =
                        IF r2.res = "ok" THEN name ELSE active_server_name
                  /\ last_op' = Op("connect_to_server", n, r2.res, FALSE, <<>>,
                                   FALSE)
    /\ ops' = ops + 1
    /\ UNCHANGED queryVars
    /\ UNCHANGED <<appVars, fnVars, uiVars>>

\* client.py:268-273: the client's disconnect().
ClientDisconnect ==
    /\ ops < MaxOps
    /\ IF active_session = 0
       THEN /\ last_op' = Op("disconnect_client", 0, "ok", FALSE, <<>>, FALSE)
            /\ UNCHANGED <<active_session, active_server_name, sess>>
       ELSE LET r == stdio_disconnect(sess[active_session])
            IN /\ sess' = [sess EXCEPT ![active_session] = r.c]
               /\ last_op' = Op("disconnect_client", active_session, r.res,
                                FALSE, <<>>, sess[active_session].connected)
               /\ IF r.res = "ok"
                  THEN /\ active_session' = 0
                       /\ active_server_name' = "none"
                  ELSE UNCHANGED <<active_session, active_server_name>>
    /\ ops' = ops + 1
    /\ UNCHANGED queryVars
    /\ UNCHANGED <<appVars, fnVars, uiVars>>

\* A call of connect_to_server with any name and any outcome.
ClientConnect ==
    \E name \in ServerNames, co \in ConnectOutcomes, io \in InitOutcomes :
       ConnectToServer(name, co, io)

\* ------------------------------------------- the extractor on token texts
\* A text is a sequence of tokens.  Whitespace (\s), the characters of a
\* name ([\w\-]+, one token per word), and the tokens of a JSON object: its
\* braces, a key with its colon, a number, a quote, a comma; "tick" is a
\* run of backticks.
Ws == {"sp", "nl"}
Words == {"add", "sub", "txt"}
Keys == {"a:", "b:"}

Min(S) == CHOOSE x \in S : \A y \in S : x <= y

\* The empty argument mapping, {}.
EmptyArgs == <<"{", "}">>

RECURSIVE skip_ws(_, _)
\* The first position from i on that holds no whitespace (\s*).
skip_ws(t, i) ==
    IF i <= Len(t) /\ t[i] \in Ws THEN skip_ws(t, i + 1) ELSE i

NoMatch == [ok |-> FALSE]

\* extraction.py:29, the group ({.*?}): from the brace at b, lazily, to the
\* first closing brace after it; 0 when there is none.
span_end(t, b) ==
    LET ends == {k \in (b + 1)..Len(t) : t[k] = "}"}
    IN IF ends = {} THEN 0 ELSE Min(ends)

\* extraction.py:28-30: tool_pattern matched at position i, with its groups
\* and the position after the match.
match_at(t, i) ==
    IF t[i] # "TOOL:" THEN NoMatch
    ELSE LET n == skip_ws(t, i + 1)
         IN IF n > Len(t) \/ t[n] \notin Words THEN NoMatch
            ELSE LET p == skip_ws(t, n + 1)
                     b == skip_ws(t, p + 1)
                 IN IF \/ \A k \in (n + 1)..(p - 1) : t[k] # "nl"
                       \/ p > Len(t) \/ t[p] # "PARAMETERS:"
                       \/ b > Len(t) \/ t[b] # "{"
                       \/ span_end(t, b) = 0
                    THEN NoMatch
                    ELSE [ok |-> TRUE, tool_name |-> t[n],
                          params_str |-> SubSeq(t, b, span_end(t, b)),
                          next |-> span_end(t, b) + 1]

RECURSIVE findall(_, _)
\* extraction.py:32: the matches from position i on, left to right, none
\* overlapping another.
findall(t, i) ==
    IF i > Len(t) THEN <<>>
    ELSE LET m == match_at(t, i)
         IN IF m.ok THEN <<m>> \o findall(t, m.next) ELSE findall(t, i + 1)

RECURSIVE lstrip(_, _)
RECURSIVE rstrip(_, _)
\* str.strip(chars), extraction.py:38.
lstrip(t, chars) ==
    IF t # <<>> /\ Head(t) \in chars THEN lstrip(Tail(t), chars) ELSE t
rstrip(t, chars) ==
    IF t # <<>> /\ t[Len(t)] \in chars
    THEN rstrip(SubSeq(t, 1, Len(t) - 1), chars)
    ELSE t
strip(t, chars) == rstrip(lstrip(t, chars), chars)

RECURSIVE parse_value(_, _)
RECURSIVE parse_members(_, _)
\* json.loads, extraction.py:39: the position after the JSON value that
\* starts at i (a number, a string up to its closing quote, an object), or 0
\* where the text is no JSON, or -1 where the decoder meets "deep", a run of
\* opening brackets longer than the interpreter's recursion limit.
parse_value(t, i) ==
    IF i > Len(t) THEN 0
    ELSE IF t[i] = "1" THEN i + 1
    ELSE IF t[i] = "deep" THEN -1
    ELSE IF t[i] = "q"
    THEN LET close == {j \in (i + 1)..Len(t) : t[j] = "q"}
         IN IF close = {} THEN 0 ELSE Min(close) + 1
    ELSE IF t[i] = "{"
    THEN IF i + 1 <= Len(t) /\ t[i + 1] = "}" THEN i + 2
         ELSE parse_members(t, i + 1)
    ELSE 0
\* The members of an object from i on, to its closing brace.
parse_members(t, i) ==
    IF i > Len(t) \/ t[i] \notin Keys THEN 0
    ELSE LET j == parse_value(t, i + 1)
         IN IF j = -1 THEN -1
            ELSE IF j = 0 \/ j > Len(t) THEN 0
            ELSE IF t[j] = "}" THEN j + 1
            ELSE IF t[j] = "," THEN parse_members(t, j + 1)
            ELSE 0

\* json.loads(t): the value (the object's tokens without the whitespace
\* between them), or the exception raised: JSONDecodeError, or RecursionError
\* from the decoder's nested calls.
json_loads(t) ==
    LET c == SelectSeq(t, LAMBDA x : x \notin Ws)
        p == IF c = <<>> THEN 0 ELSE parse_value(c, 1)
    IN IF p = Len(c) + 1 THEN [ok |-> TRUE, value |-> c]
       ELSE IF p = -1 THEN [ok |-> FALSE, error |-> "RecursionError"]
       ELSE [ok |-> FALSE, error |-> "JSONDecodeError"]

\* extraction.py:38: the parameters of a match, backticks and whitespace
\* stripped.
cleaned_params(m) == strip(strip(m.params_str, {"tick"}), Ws)

\* extraction.py:34-43: the call appended for one match; the handler at 40
\* catches json.JSONDecodeError.
call_of_match(m) ==
    LET r == json_loads(cleaned_params(m))
    IN <<[name |-> m.tool_name, args |-> IF r.ok THEN r.value ELSE EmptyArgs]>>

\* extraction.py:39-43: json.loads raises an exception the handler does not
\* catch, which leaves extract_tool_calls.
uncaught(ms) ==
    \E i \in 1..Len(ms) :
       LET r == json_loads(cleaned_params(ms[i]))
       IN ~r.ok /\ r.error # "JSONDecodeError"

RECURSIVE calls_of(_)
\* extraction.py:34-43: the calls of the matches, in their order.
calls_of(ms) ==
    IF ms = <<>> THEN <<>> ELSE call_of_match(Head(ms)) \o calls_of(Tail(ms))

\* str.lower() of a token.
lower(x) ==
    CASE x = "USE THE " -> "use the "
      [] x = " TOOL" -> " tool"
      [] x = "ADD" -> "add"
      [] OTHER -> x

\* Mutant: the phrase is compared as written.
mentioned_exact(t, name) ==
    \E i \in 1..(Len(t) - 2) :
       /\ t[i] = "use the "
       /\ t[i + 1] = name
       /\ t[i + 2] = " tool"

\* extraction.py:48-49: "use the <name> tool", lowered, occurs in the
\* lowered text.
mentioned(t, name) ==
    \E i \in 1..(Len(t) - 2) :
       /\ lower(t[i]) = "use the "
       /\ lower(t[i + 1]) = lower(name)
       /\ lower(t[i + 2]) = " tool"

RECURSIVE fallback_calls(_, _)
\* extraction.py:47-50: one call with empty parameters for each tool of the
\* list whose phrase occurs, in list order.
fallback_calls(t, tool_list) ==
    IF tool_list = <<>> THEN <<>>
    ELSE (IF mentioned(t, Head(tool_list).name)
          THEN <<[name |-> Head(tool_list).name, args |-> EmptyArgs]>>
          ELSE <<>>) \o fallback_calls(t, Tail(tool_list))

\* extraction.py:13-52 on a token text: the calls returned, or the
\* exception that left the loop.
extract_tokens(t, tool_list) ==
    LET ms == findall(t, 1)
        calls == calls_of(ms)
    IN IF uncaught(ms) THEN [raised |-> TRUE, calls |-> <<>>]
       ELSE [raised |-> FALSE,
             calls |-> IF calls = <<>> /\ tool_list # <<>>
                       THEN fallback_calls(t, tool_list)
                       ELSE calls]

\* The texts given to the extractor are made of segments, each on a line of
\* its own.  A segment is what the model wrote there: its kind, the tool it
\* names, the JSON object it carries if it carries a valid one, and its tokens.
Segment(kind, name, obj, tokens) ==
    [kind |-> kind, name |-> name, obj |-> obj, tokens |-> tokens]

\* The TOOL: line and the start of the PARAMETERS: line.
PairHead(name) == <<"TOOL:", "sp", name, "nl", "PARAMETERS:", "sp">>

FlatObj == <<"{", "a:", "1", "}">>
TwoObj == <<"{", "a:", "1", ",", "b:", "q", "txt", "q", "}">>
NestedObj == <<"{", "a:", "{", "b:", "1", "}", "}">>
StrBraceObj == <<"{", "a:", "q", "}", "q", "}">>

\* A pair in the convention with a valid JSON object: flat, empty, on
\* several lines, with a nested object, with a brace in a string value.
Pairs ==
    {Segment("pair", "add", FlatObj, PairHead("add") \o FlatObj),
     Segment("pair", "sub", TwoObj, PairHead("sub") \o TwoObj),
     Segment("pair", "add", EmptyArgs, PairHead("add") \o EmptyArgs),
     Segment("pair", "add", FlatObj,
             PairHead("add") \o <<"{", "nl", "a:", "1", "nl", "}">>),
     Segment("pair", "add", NestedObj, PairHead("add") \o NestedObj),
     Segment("pair", "add", StrBraceObj, PairHead("add") \o StrBraceObj)}

\* The pairs among them whose object holds no closing brace before its last.
FlatPairs == {p \in Pairs : p.obj \notin {NestedObj, StrBraceObj}}

\* A pair whose braces hold no valid JSON, one whose object is not closed,
\* one whose braces hold brackets nested beyond the recursion limit, one
\* whose object stands between backticks.
Invalid == Segment("invalid", "add", <<>>, PairHead("add") \o <<"{", "a:", "}">>)
Unclosed == Segment("unclosed", "add", <<>>, PairHead("add") \o <<"{", "a:", "1">>)
Deep == Segment("deep", "add", <<>>, PairHead("add") \o <<"{", "a:", "deep", "}">>)
Ticked ==
    Segment("ticked", "add", FlatObj,
            PairHead("add") \o <<"tick">> \o FlatObj \o <<"tick">>)

\* The phrase of the fallback, as written or in capitals, and a plain word.
Mentions ==
    {Segment("mention", "add", <<>>, <<"use the ", "add", " tool">>),
     Segment("mention", "add", <<>>, <<"USE THE ", "ADD", " TOOL">>),
     Segment("mention", "sub", <<>>, <<"use the ", "sub", " tool">>)}
Prose == Segment("prose", "", <<>>, <<"txt">>)

Segments == Pairs \cup Mentions \cup {Invalid, Unclosed, Deep, Ticked, Prose}

\* The texts of at most MaxSegments segments.
Texts == UNION {[1..n -> Segments] : n \in 1..MaxSegments}

RECURSIVE Flatten(_)
\* The tokens of a text: its segments, a newline after each.
Flatten(segs) ==
    IF segs = <<>> THEN <<>>
    ELSE Head(segs).tokens \o <<"nl">> \o Flatten(Tail(segs))

\* The tool lists given to the extractor: none, one tool, two tools.
ToolListsIn == {<<>>, <<Tool("add", {})>>, <<Tool("add", {}), Tool("sub", {})>>}

\* extraction.py:13-52: extract_tool_calls is called on the text and returns.
Extract ==
    /\ ~extracted.done
    /\ text_in # <<>>
    /\ extracted' = [done |-> TRUE] @@ extract_tokens(Flatten(text_in), tools_in)
    /\ UNCHANGED <<queryVars, clientVars, appVars, uiVars,
                 text_in, tools_in, schema,
                   args_in, validated, result_in, formatted>>

\* A text and a tool list, before the call.
ExtractInit ==
    /\ QueryInit /\ FreshClient /\ IdleApp
    /\ text_in \in Texts
    /\ tools_in \in ToolListsIn
    /\ extracted = NotRun
    /\ schema = <<>>
    /\ args_in = <<>>
    /\ validated = NotRun
    /\ result_in = <<>>
    /\ formatted = NotRun

ExtractSpec == ExtractInit /\ [][Extract]_vars

\* ------------------------------------------------- validate_tool_args
\* Python values are records of their type and their text; an Optional is a
\* sequence of at most one element.
Val(t, v) == [t |-> t, v |-> v]
Str(v) == Val("str", v)
Null == Val("NoneType", "None")
Some(x) == <<x>>

\* The declared type of a property: one name, a list of names, or nothing
\* (the key "type" absent, or a value that is false in a condition).
Type(name) == [list |-> FALSE, names |-> <<name>>]
ListType(names) == [list |-> TRUE, names |-> names]
NoType == [list |-> FALSE, names |-> <<>>]

\* The argument names of the schemas, the values given for the first and the
\* types declared for it, and the fewer of the second.
Fields == {"n", "q"}
Values ==
    {Str("3"), Str("3.5"), Str("abc"), Str("true"), Str("[1]"),
     Val("int", "3"), Val("float", "3.5"), Val("float", "inf"),
     Val("bool", "True"), Null, Val("list", "[1]"), Val("dict", "{}")}
FewValues == {Str("abc"), Null, Val("int", "3")}
Types ==
    {NoType, Type("string"), Type("integer"), Type("number"), Type("boolean"),
     Type("array"), Type("object"), Type("null"),
     ListType(<<"string", "null">>)}
FewTypes == {NoType, Type("string"), Type("integer"), Type("null")}
ValuesOf(f) == IF f = "n" THEN Values ELSE FewValues
TypesOf(f) == IF f = "n" THEN Types ELSE FewTypes

\* The argument mappings: some of the fields, each with one of its values.
ArgsIn ==
    UNION {{a \in [D -> Values] : \A f \in D : a[f] \in ValuesOf(f)} :
             D \in SUBSET Fields}

\* schema["properties"], in the order of the dict: no property, one, or both.
Prop(name, type) == [name |-> name, type |-> type]
PropertiesIn ==
    {<<>>}
    \cup {<<Prop(f, t)>> : f \in Fields, t \in Types}
    \cup {<<Prop(f, t), Prop(g, u)>> : f \in Fields, g \in Fields,
                                       t \in Types, u \in Types}

\* The schemas: none, or the names required (none where the key is absent)
\* and the properties (none where the key is absent).
NoSchema == [has |-> FALSE, required |-> <<>>, properties |-> <<>>]
SchemasIn ==
    {NoSchema}
    \cup {[has |-> TRUE, required |-> r, properties |-> ps] :
            r \in {<<>>, <<"n">>, <<"q", "n">>},
            ps \in {x \in PropertiesIn :
                      /\ \A i \in 1..Len(x) : x[i].type \in TypesOf(x[i].name)
                      /\ Len(x) = 2 => x[1].name # x[2].name}}

\* The outcomes of validate_tool_args: (True, processed_args, None),
\* (False, None, message), or an exception no handler catches.
Valid(a) == [raised |-> FALSE, valid |-> TRUE, args |-> Some(a), error |-> None]
Rejected(kind, field) ==
    [raised |-> FALSE, valid |-> FALSE, args |-> None,
     error |-> Some([kind |-> kind, field |-> field])]
Raised == [raised |-> TRUE, valid |-> FALSE, args |-> None, error |-> None]

RECURSIVE first_missing(_, _)
\* execution.py:94-97: the first name of "required" that the arguments lack,
\* if there is one.
first_missing(required, a) ==
    IF required = <<>> THEN None
    ELSE IF Head(required) \notin DOMAIN a THEN Some(Head(required))
    ELSE first_missing(Tail(required), a)

\* execution.py:113-115: the declared type is "null" or a list with "null".
null_allowed(type) ==
    \/ type = Type("null")
    \/ type.list /\ \E i \in 1..Len(type.names) : type.names[i] = "null"

\* isinstance(value, int): a bool is an int.
is_int(value) == value.t \in {"int", "bool"}

\* The conversions of lines 123-166 yield a value, fail with the handled
\* exception, or raise another one.
Converted(value) == [res |-> "ok", value |-> value]
ConvFailed == [res |-> "fail"]
ConvRaised == [res |-> "raise"]

\* str(value), execution.py:123.
to_str(value) == Converted(Str(value.v))

\* float(value), execution.py:126, of a value that is no int and no float:
\* ValueError or TypeError where it is no number's text.
to_float(value) ==
    IF value = Str("3") THEN Converted(Val("float", "3.0"))
    ELSE IF value = Str("3.5") THEN Converted(Val("float", "3.5"))
    ELSE ConvFailed

\* int(value), execution.py:131, of a value that is no int: the text of an
\* integer, a float cut to its integer part; OverflowError for infinity, which
\* the handler at 132 does not catch.
to_int(value) ==
    IF value = Str("3") THEN Converted(Val("int", "3"))
    ELSE IF value = Val("float", "3.5") THEN Converted(Val("int", "3"))
    ELSE IF value = Val("float", "inf") THEN ConvRaised
    ELSE ConvFailed

\* execution.py:136-148, of a value that is no bool.
to_bool(value) ==
    IF value = Str("true") THEN Converted(Val("bool", "True")) ELSE ConvFailed

\* execution.py:151-161, of a value that is no list.
to_list(value) ==
    IF value = Str("[1]") THEN Converted(Val("list", "[1]")) ELSE ConvFailed

\* execution.py:164-174, of a value that is no dict: none of the strings
\* here starts with a brace.
to_dict(value) == ConvFailed

\* Mutant: str() fails on a dict.
coerce_str_fails(type, value) ==
    IF type = Type("string") /\ value.t = "dict" THEN ConvFailed
    ELSE IF type = Type("string") /\ value.t # "str" THEN to_str(value)
    ELSE Converted(value)

\* execution.py:121-174: the chain of type branches on a value that is not
\* None; a type none of them names leaves the value as it is.
coerce(type, value) ==
    IF type = Type("string") /\ value.t # "str" THEN to_str(value)
    ELSE IF type = Type("number") /\ ~(is_int(value) \/ value.t = "float")
    THEN to_float(value)
    ELSE IF type = Type("integer") /\ ~is_int(value) THEN to_int(value)
    ELSE IF type = Type("boolean") /\ value.t # "bool" THEN to_bool(value)
    ELSE IF type = Type("array") /\ value.t # "list" THEN to_list(value)
    ELSE IF type = Type("object") /\ value.t # "dict" THEN to_dict(value)
    ELSE Converted(value)

\* The word of the message "Field <name> must be a <word>".
kind_of(type) == type.names[1]

\* execution.py:103-107: no type, no validation of the property.
skipped(type) == type.names = <<>>

\* Mutant: None is let through for every type.
null_rejected_never(type) == FALSE

\* execution.py:112-118: None for a type that does not allow it.
null_rejected(type) == ~null_allowed(type)

RECURSIVE check_properties(_, _, _)
\* execution.py:101-174: the loop over the properties, in the dict's order,
\* reading args and writing processed_args.
check_properties(properties, a, processed_args) ==
    IF properties = <<>> THEN Valid(processed_args)
    ELSE LET prop_name == Head(properties).name
             prop_type == Head(properties).type
             rest == Tail(properties)
         IN IF prop_name \notin DOMAIN a \/ skipped(prop_type)
            THEN check_properties(rest, a, processed_args)
            ELSE IF a[prop_name] = Null
            THEN IF null_rejected(prop_type)
                 THEN Rejected("null", prop_name)
                 ELSE check_properties(rest, a, processed_args)
            ELSE LET c == coerce(prop_type, a[prop_name])
                 IN IF c.res = "raise" THEN Raised
                    ELSE IF c.res = "fail"
                    THEN Rejected(kind_of(prop_type), prop_name)
                    ELSE check_properties(
                            rest, a,
                            [processed_args EXCEPT ![prop_name] = c.value])

\* Mutant: the names of "required" are not looked at.
required_check_none(sch, a) == None

\* execution.py:94-97.
required_check(sch, a) == first_missing(sch.required, a)

\* execution.py:74-176.
validate_tool_args_result(sch, a) ==
    IF ~sch.has THEN Valid(a)
    ELSE IF required_check(sch, a) # None
    THEN Rejected("missing", required_check(sch, a)[1])
    ELSE check_properties(sch.properties, a, a)

\* validate_tool_args is called on the tool's schema and the arguments.
Validate ==
    /\ ~validated.done
    /\ schema \in SchemasIn
    /\ validated' = [done |-> TRUE] @@ validate_tool_args_result(schema, args_in)
    /\ UNCHANGED <<queryVars, clientVars, appVars, uiVars,
                 text_in, tools_in, extracted,
                   schema, args_in, result_in, formatted>>

\* A schema and an argument mapping, before the call.
ValidateInit ==
    /\ QueryInit /\ FreshClient /\ IdleApp
    /\ text_in = <<>>
    /\ tools_in = <<>>
    /\ extracted = NotRun
    /\ schema \in SchemasIn
    /\ args_in \in ArgsIn
    /\ validated = NotRun
    /\ result_in = <<>>
    /\ formatted = NotRun

ValidateSpec == ValidateInit /\ [][Validate]_vars

\* ------------------------------------------------- format_tool_result
\* Strings are sequences of tokens; "bsn" is a backslash followed by n, "nl"
\* a newline.  str() of an object is one token naming it.
Repr(id) == <<"<" \o id \o ">">>

\* item.data[:20], execution.py:62.
DataShown == 20

\* An item of a list content: the attributes it has, their values, its name.
Item(attrs, text, data, id) ==
    [attrs |-> attrs, text |-> text, data |-> data, id |-> id]
LongData == [i \in 1..(DataShown + 1) |-> "d"]
Items ==
    {Item({"text"}, <<"t">>, <<>>, "i1"),
     Item({"text"}, <<"u", "nl", "v">>, <<>>, "i2"),
     Item({"text"}, <<>>, <<>>, "i3"),
     Item({"data"}, <<>>, LongData, "i4"),
     Item({"data"}, <<>>, <<"d", "e">>, "i5"),
     Item({"text", "data"}, <<"t">>, <<"d">>, "i6"),
     Item({}, <<>>, <<>>, "i7")}

\* The results: without a content attribute; with a string, a list of at
\* most MaxItems items, or something else (whose str() holds a backslash-n)
\* as content.
\* content holds the string, or the str() of the other content; items holds
\* the list.
Result(has_content, type, content, items) ==
    [has_content |-> has_content, type |-> type, content |-> content,
     items |-> items, id |-> "r"]
ResultsIn ==
    {Result(FALSE, "none", <<>>, <<>>)}
    \cup {Result(TRUE, "str", c, <<>>) :
            c \in {<<>>, <<"a", "nl", "b">>, <<"a", "bsn">>}}
    \cup {Result(TRUE, "list", <<>>, c) :
            c \in UNION {[1..n -> Items] : n \in 0..MaxItems}}
    \cup {Result(TRUE, "other", <<"{", "bsn", "}">>, <<>>)}

\* Mutant: the data placeholder is taken before the text.
format_item_data_first(item) ==
    IF "data" \in item.attrs
    THEN <<"[Image/Data: ">>
         \o SubSeq(item.data, 1, IF Len(item.data) < DataShown
                                 THEN Len(item.data) ELSE DataShown)
         \o <<"...]">>
    ELSE IF "text" \in item.attrs THEN item.text
    ELSE Repr(item.id)

\* execution.py:59-64: the part appended for one item.
format_item(item) ==
    IF "text" \in item.attrs THEN item.text
    ELSE IF "data" \in item.attrs
    THEN <<"[Image/Data: ">>
         \o SubSeq(item.data, 1, IF Len(item.data) < DataShown
                                 THEN Len(item.data) ELSE DataShown)
         \o <<"...]">>
    ELSE Repr(item.id)

RECURSIVE join(_, _)
\* sep.join(parts), execution.py:65.
join(sep, parts) ==
    IF parts = <<>> THEN <<>>
    ELSE IF Len(parts) = 1 THEN parts[1]
    ELSE parts[1] \o sep \o join(sep, Tail(parts))

\* str.replace("\\n", "\n"), execution.py:68.
replace_bsn(t) == [i \in 1..Len(t) |-> IF t[i] = "bsn" THEN "nl" ELSE t[i]]

\* execution.py:38-71.
format_tool_result(result) ==
    IF result.has_content
    THEN IF result.type = "str" THEN result.content
         ELSE IF result.type = "list"
         THEN join(<<"nl">>,
                   [i \in 1..Len(result.items) |-> format_item(result.items[i])])
         ELSE replace_bsn(result.content)
    ELSE Repr(result.id)

\* format_tool_result is called on the result and returns.
Format ==
    /\ ~formatted.done
    /\ result_in \in ResultsIn
    /\ formatted' = [done |-> TRUE, text |-> format_tool_result(result_in)]
    /\ UNCHANGED <<queryVars, clientVars, appVars, uiVars,
                 text_in, tools_in, extracted,
                   schema, args_in, validated, result_in>>

\* A result, before the call.
FormatInit ==
    /\ QueryInit /\ FreshClient /\ IdleApp
    /\ text_in = <<>>
    /\ tools_in = <<>>
    /\ extracted = NotRun
    /\ schema = <<>>
    /\ args_in = <<>>
    /\ validated = NotRun
    /\ result_in \in ResultsIn
    /\ formatted = NotRun

FormatSpec == FormatInit /\ [][Format]_vars

\* ------------------------------------------- the non-streaming process_query
\* The texts a generate call returns.
Responses ==
    {<<Text>>, <<Pair("add", "json")>>, <<Text, Pair("add", "json")>>,
     <<Pair("add", "json"), Pair("add", "empty")>>, <<Mention("add")>>}

\* client.py:143-147, 154-156, 163-164, 166-168: the parts of final_text.
ToolCallDisplay(call) == <<Piece("tool_call_display", call.name, call.args)>>
ResultDisplay == <<Piece("result_display", "", "")>>
FollowUpText == <<Piece("follow_up", "", "")>>
ErrorMsg(call) == <<Piece("error_msg", call.name, "")>>

\* client.py:141 and the end of the for loop: on to the next call, or to
\* the return of client.py:170.
pq_next(idx, calls) == IF idx < Len(calls) THEN "call" ELSE "done"

\* client.py:121-129: the call; without an active session it raises.
PqStart ==
    /\ pq.pc = "idle"
    /\ pq' = IF active_session = 0
             THEN [pq EXCEPT !.pc = "raised"]
             ELSE [pq EXCEPT !.pc = "generate",
                             !.messages = <<Msg("user", Query)>>,
                             !.tools = available_tools(sess[active_session]).ret]
    /\ UNCHANGED <<queryVars, clientVars, unit, fnVars, uiVars>>

\* client.py:131-138 with gpt4o.py:96-126 / gemini.py:103-120: the initial
\* generate call; neither adapter nor process_query handles what it raises.
PqGenerate ==
    /\ pq.pc = "generate"
    /\ \E ok \in BOOLEAN, r \in Responses :
          LET req == prepare_messages(llm, pq.messages, tool_info)
              calls == extract_tool_calls(r, pq.tools)
          IN pq' = IF ok
                   THEN [pq EXCEPT !.request = req,
                                   !.response_text = r,
                                   !.tool_calls = calls,
                                   !.final_text = <<r>>,
                                   !.pc = pq_next(0, calls)]
                   ELSE [pq EXCEPT !.request = req,
                                   !.generate_failed = TRUE,
                                   !.pc = "raised"]
    /\ UNCHANGED <<queryVars, clientVars, unit, fnVars, uiVars>>

\* client.py:141-151: the next call's display is added and call_tool is
\* awaited on self.active_session.
PqCallTool ==
    /\ pq.pc = "call"
    /\ pq' = [pq EXCEPT !.idx = @ + 1,
                        !.final_text =
                           Append(@, ToolCallDisplay(pq.tool_calls[pq.idx + 1])),
                        !.pc = "await_tool"]
    /\ UNCHANGED <<queryVars, clientVars, unit, fnVars, uiVars>>

\* client.py:151-156: call_tool returned; its result is added.
PqToolReturns ==
    /\ pq.pc = "await_tool"
    /\ active_session # 0
    /\ session_call_tool(sess[active_session], "returned").reached
    /\ pq' = [pq EXCEPT !.final_text = Append(@, ResultDisplay),
                        !.pc = "follow_up"]
    /\ UNCHANGED <<queryVars, clientVars, unit, fnVars, uiVars>>

\* client.py:151, 166-168: call_tool raised; the handler adds the error.
PqToolRaises ==
    /\ pq.pc = "await_tool"
    /\ pq' = [pq EXCEPT !.final_text = Append(@, ErrorMsg(pq.tool_calls[pq.idx])),
                        !.pc = pq_next(pq.idx, pq.tool_calls)]
    /\ UNCHANGED <<queryVars, clientVars, unit, fnVars, uiVars>>

\* client.py:149-168: the follow-up generate call is inside the try block of
\* the tool call, so the handler of client.py:166-168 takes what it raises:
\* the part added to final_text, and where process_query goes on.
follow_up_failure(call) ==
    [final |-> <<ErrorMsg(call)>>, pc |-> pq_next(pq.idx, pq.tool_calls)]

\* client.py:158-164 (and 166-168): the follow-up generate call on a copy of
\* messages with the response and the result.
PqFollowUp ==
    /\ pq.pc = "follow_up"
    /\ \E ok \in BOOLEAN :
          LET follow_up_messages ==
                 pq.messages \o <<Msg("model", pq.response_text),
                                  Msg("user", ResultDisplay)>>
              req == prepare_messages(llm, follow_up_messages, None)
              f == follow_up_failure(pq.tool_calls[pq.idx])
          IN pq' = IF ok
                   THEN [pq EXCEPT !.request = req,
                                   !.final_text = Append(@, FollowUpText),
                                   !.pc = pq_next(pq.idx, pq.tool_calls)]
                   ELSE [pq EXCEPT !.request = req,
                                   !.generate_failed = TRUE,
                                   !.final_text = @ \o f.final,
                                   !.pc = f.pc]
    /\ UNCHANGED <<queryVars, clientVars, unit, fnVars, uiVars>>

\* ------------------------------------------------- background query units
\* app.py:236-262: submit_query starts a unit for the server the UI's client
\* is connected to.
SubmitQuery(u) ==
    /\ unit[u].pc = "idle"
    /\ active_session # 0
    /\ active_server_name # "none"
    /\ unit' = [unit EXCEPT ![u].pc = "new", ![u].server = active_server_name]
    /\ UNCHANGED <<queryVars, clientVars, pq, fnVars, uiVars>>

\* app.py:149-165 (and 226-232): the unit's files are written, its own
\* MCPClient and event loop are made; a failure there goes to the handler of
\* the thread.
UnitCreateClient(u) ==
    /\ unit[u].pc = "new"
    /\ \E ok \in BOOLEAN :
          unit' = IF ok
                  THEN [unit EXCEPT ![u].pc = "connect"]
                  ELSE [unit EXCEPT ![u].pc = "done", ![u].path = "thread_error"]
    /\ UNCHANGED <<queryVars, clientVars, pq, fnVars, uiVars>>

\* app.py:171 (and 204-211): connect_to_server on the unit's client; a failure
\* goes to the handler, then to the finally block.
UnitConnect(u) ==
    /\ unit[u].pc = "connect"
    /\ FreeIds # {}
    /\ \E co \in ConnectOutcomes, io \in InitOutcomes :
          LET n == NextId
              r == connect_session(unit[u].server, co, io)
          IN /\ sess' = [sess EXCEPT ![n] = r.c]
             /\ unit' = [unit EXCEPT
                            ![u].active_session = n,
                            ![u].made = @ \cup {n},
                            ![u].pc = IF r.res = "ok" THEN "stream" ELSE "finally",
                            ![u].path = IF r.res = "ok" THEN @ ELSE "connect_error"]
    /\ UNCHANGED <<queryVars, active_session, active_server_name, ops, last_op,
                   pq, fnVars, uiVars>>

\* app.py:178: the client the unit streams from is its own; the loop runs on
\* that client's active_session (client.py:188-192, 238).
unit_session(u) == unit[u].active_session

\* app.py:178-200 (and 204-211): the stream is consumed to its end, or it or a
\* write of the unit's files raises and the handler runs.
UnitStream(u) ==
    /\ unit[u].pc = "stream"
    /\ \E raised \in BOOLEAN :
          unit' = [unit EXCEPT
                     ![u].used = @ \cup {unit_session(u)},
                     ![u].path = IF raised THEN "stream_error" ELSE "success",
                     ![u].pc = "finally"]
    /\ UNCHANGED <<queryVars, clientVars, pq, fnVars, uiVars>>

\* Mutant: the unit disconnects only after a stream that ended well.
UnitFinally_on_success(u) ==
    /\ unit[u].pc = "finally"
    /\ LET a == unit[u].active_session
       IN IF a = 0 \/ unit[u].path # "success"
          THEN /\ unit' = [unit EXCEPT ![u].pc = "done"]
               /\ UNCHANGED sess
          ELSE /\ sess' = [sess EXCEPT ![a] = stdio_disconnect(sess[a]).c]
               /\ unit' = [unit EXCEPT ![u].pc = "done",
                                       ![u].disconnects = @ + 1,
                                       ![u].active_session = 0]
    /\ UNCHANGED <<queryVars, active_session, active_server_name, ops, last_op,
                   pq, fnVars, uiVars>>

\* app.py:213-224 with client.py:268-273: the finally block calls disconnect
\* on the unit's client, whichever way the try block was left, and swallows
\* what it raises; then the unit ends.
UnitFinally(u) ==
    /\ unit[u].pc = "finally"
    /\ LET a == unit[u].active_session
       IN IF a = 0
          THEN /\ unit' = [unit EXCEPT ![u].pc = "done", ![u].disconnects = @ + 1]
               /\ UNCHANGED sess
          ELSE LET r == stdio_disconnect(sess[a])
               IN /\ sess' = [sess EXCEPT ![a] = r.c]
                  /\ unit' = [unit EXCEPT
                                 ![u].pc = "done",
                                 ![u].disconnects = @ + 1,
                                 ![u].active_session =
                                    IF r.res = "ok" THEN 0 ELSE @]
    /\ UNCHANGED <<queryVars, active_session, active_server_name, ops, last_op,
                   pq, fnVars, uiVars>>

LoopStep == Start \/ LoopHead \/ BeginStream \/ AppendResult \/ AppendError
            \/ AfterLoop \/ CallTool
BackendStep == StreamChunk \/ StreamEnd \/ GptStreamFail \/ GptReraise
               \/ GeminiStreamFail
ToolStep == ToolReturns \/ ToolRaises

Next ==
    \/ Start
    \/ LoopHead
    \/ BeginStream
    \/ StreamChunk
    \/ StreamEnd
    \/ GptStreamFail
    \/ GptReraise
    \/ GeminiStreamFail
    \/ CallTool
    \/ ToolReturns
    \/ ToolRaises
    \/ AppendResult
    \/ AppendError
    \/ AfterLoop

Spec == Init /\ [][Next]_vars

\* The same invocation, followed through its first MaxShortTurns turns.
ShortLoopHead == turn_count < MaxShortTurns /\ LoopHead

ShortNext ==
    \/ Start
    \/ ShortLoopHead
    \/ BeginStream
    \/ StreamChunk
    \/ StreamEnd
    \/ GptStreamFail
    \/ GptReraise
    \/ GeminiStreamFail
    \/ CallTool
    \/ ToolReturns
    \/ ToolRaises
    \/ AppendResult
    \/ AppendError
    \/ AfterLoop

ShortSpec == Init /\ [][ShortNext]_vars

\* The calls a program makes on a client and on sessions of its own, no query
\* being processed.
SessNext ==
    \/ SessionNew
    \/ SessionConnect
    \/ SessionDisconnect
    \/ SessionInitialize
    \/ SessionCallTool
    \/ SessionAvailableTools
    \/ ClientConnect
    \/ ClientDisconnect

SessInit == QueryInit /\ FreshClient /\ IdleApp /\ IdleFn

SessSpec == SessInit /\ [][SessNext]_vars

\* One invocation of process_query_streaming and, at its suspension points,
\* calls of connect_to_server and disconnect on the same client.
InterleavedConnect == ops < MaxInterleaved /\ ClientConnect
InterleavedDisconnect == ops < MaxInterleaved /\ ClientDisconnect
ConcNext == Next \/ InterleavedConnect \/ InterleavedDisconnect

ConcSpec == Init /\ [][ConcNext]_vars

\* One invocation of process_query on a client connected to a server with any
\* of the tool lists.
PqNext ==
    \/ PqStart
    \/ PqGenerate
    \/ PqCallTool
    \/ PqToolReturns
    \/ PqToolRaises
    \/ PqFollowUp

PqSpec == ToolInit /\ [][PqNext]_vars

\* The UI's client and the units started from it.
AppNext ==
    \/ \E u \in Units : SubmitQuery(u)
    \/ \E u \in Units : UnitCreateClient(u)
    \/ \E u \in Units : UnitConnect(u)
    \/ \E u \in Units : UnitStream(u)
    \/ \E u \in Units : UnitFinally(u)
    \/ InterleavedConnect
    \/ InterleavedDisconnect

AppSpec == Init /\ [][AppNext]_vars

\* The loop against each of the tool lists.
ToolSpec == ToolInit /\ [][Next]_vars

\* The caller keeps consuming the generator, every stream ends or fails and
\* every call_tool returns or raises.
LiveSpec == Spec /\ WF_vars(LoopStep) /\ WF_vars(BackendStep) /\ WF_vars(ToolStep)

\* The terminal states of section 4.5.
Failed == pc = "end" /\ exit_via = "except"
Done == pc = "end" /\ exit_via \in {"no_calls", "cond"}

TypeOK ==
    /\ pc \in {"start", "while", "generate", "streaming", "call_tool",
               "await_tool", "append_result", "append_error", "after_loop",
               "end"}
    /\ turn_count \in 0..max_turns
    /\ llm \in Adapters
    /\ adapter \in {"none", "open", "errored", "raised", "done"}
    /\ exit_via \in {"none", "except", "no_calls", "cond", "no_session"}
    /\ active_session \in 0..MaxSessions
    /\ call_target \in 0..MaxSessions
    /\ ops \in 0..MaxOps

\* ------------------------------------------------------------------ helpers
Range(seq) == {seq[i] : i \in 1..Len(seq)}
Last(seq) == seq[Len(seq)]
IsPrefix(a, b) == Len(a) <= Len(b) /\ SubSeq(b, 1, Len(a)) = a
ModelIdx(msgs) == {i \in 1..Len(msgs) : msgs[i].role = "model"}
\* Index of the last model message of the conversation, 0 if there is none.
LastModelIdx(msgs) ==
    IF ModelIdx(msgs) = {} THEN 0
    ELSE CHOOSE i \in ModelIdx(msgs) : \A j \in ModelIdx(msgs) : j <= i
\* Number of messages appended for the calls of the current batch.
BatchAppended ==
    IF LastModelIdx(messages) = 0 THEN 0 ELSE Len(messages) - LastModelIdx(messages)
\* A generation is in progress: the adapter's generator is suspended mid-stream.
Generating == adapter \in {"open", "errored"}
CarriesToolInfo(m) == \E i \in 1..Len(m.content) : m.content[i] = tool_info[1]
\* Every completed model turn so far carried a TOOL:/PARAMETERS: marker.
EveryTurnMarked ==
    \A i \in ModelIdx(messages) : primary_matches(messages[i].content) # <<>>

\* ------------------------------------------------------------------- claims

\* C1: in one invocation generate_streaming is invoked at most 10 times, the
\* fixed maximum, whatever the model streams and however the tools end.
C1_GenerateAtMostTen == gen_calls <= 10 /\ max_turns = 10

\* C1 witness: an invocation that ended after a tenth generation.
C1_Witness == pc = "end" /\ gen_calls = 10

\* C2: with the caller consuming, every stream ending or failing and every
\* call_tool returning or raising, an invocation eventually reaches Done or
\* Failed, and from then on nothing more is yielded.
C2_Terminates ==
    /\ (pc = "while") ~> (Done \/ Failed)
    /\ [][(Done \/ Failed) => (output' = output /\ pc' = pc)]_vars

\* C2 witness: a terminal state reached after tool calls were executed.
C2_Witness == (Done \/ Failed) /\ turn_count >= 2 /\ Len(output) >= 4

\* C3: when every turn of the invocation carries a tool marker, the loop makes
\* exactly 10 generations, the maximum-turns notice is its last chunk, given
\* once, and an 11th generation is never started.
C3_TurnCap ==
    /\ gen_calls <= 10
    /\ (pc = "end" /\ adapter = "done" /\ EveryTurnMarked)
         => /\ gen_calls = 10
            /\ turn_count = 10
            /\ Last(output) = MaxTurnsNotice
            /\ Cardinality({i \in 1..Len(output) : output[i] = MaxTurnsNotice}) = 1

\* C3 witness: an ended invocation in which all ten turns carried a marker.
C3_Witness ==
    /\ pc = "end"
    /\ adapter = "done"
    /\ EveryTurnMarked
    /\ Cardinality(ModelIdx(messages)) = 10

\* C4 as claimed: the maximum-turns notice is in the output of an ended
\* invocation if and only if the loop was left by its turn limit; a run left
\* because a turn had no calls, or because the adapter failed, has no notice.
C4_NoticeIffTurnLimit ==
    pc = "end" => ((MaxTurnsNotice \in Range(output)) <=> exit_via = "cond")

\* C5: the calls of a batch run one at a time in extraction order: a call is
\* started only when the messages of all calls before it are appended, the
\* call in flight is the next one of tool_calls, and while a generation is in
\* progress no call of the batch before it is pending or unstarted.
C5_Sequential ==
    /\ started <= BatchAppended + 1
    /\ started <= Len(tool_calls)
    /\ pc = "await_tool" =>
          /\ started = call_idx
          /\ BatchAppended = call_idx - 1
    /\ \A k \in 1..BatchAppended :
          k <= Len(tool_calls)
          /\ messages[LastModelIdx(messages) + k].content[1].name = tool_calls[k].name
    /\ Generating =>
          /\ pc = "streaming"
          /\ started = Len(tool_calls)
          /\ Len(outcomes) = Len(tool_calls)
          /\ BatchAppended = Len(tool_calls)

\* C5 witness: the second call of a batch is in flight.
C5_Witness == pc = "await_tool" /\ started = 2 /\ BatchAppended = 1

\* C6: when call_tool raises, an error-tagged message is appended for that
\* call, the remaining calls of the batch are still executed, control returns
\* to the while test and, below the maximum, the next generation is requested;
\* the invocation does not end on a tool failure.
C6_ToolFailureRecoverable ==
    /\ [](\A k \in 1..Len(outcomes) :
             (outcomes[k] = "raised" /\ k <= BatchAppended)
                => messages[LastModelIdx(messages) + k] = ErrorMessage(tool_calls[k].name))
    /\ []((pc \in {"while", "generate", "streaming", "after_loop", "end"})
              => Len(outcomes) = Len(tool_calls) /\ BatchAppended = Len(tool_calls))
    /\ [][(pc = "await_tool") => (pc' \in {"append_result", "append_error"})]_vars
    /\ [][(pc = "append_error") =>
             /\ pc' = (IF call_idx < Len(tool_calls) THEN "call_tool" ELSE "while")
             /\ messages' = Append(messages, ErrorMessage(tool_calls[call_idx].name))]_vars
    /\ [][(pc = "while" /\ turn_count < 10) => pc' = "generate"]_vars

\* C6 witness: a generation of the next turn after a batch of two calls whose
\* first call raised.
C6_Witness ==
    /\ pc = "streaming"
    /\ turn_count = 2
    /\ Len(outcomes) = 2
    /\ outcomes[1] = "raised"

\* C7: from the failure of the streaming generation on, what was forwarded
\* stays forwarded, no model message is appended, no tool call is started and
\* no generation is requested; once the exception has reached the loop the
\* error is in the output and the invocation is on its way to Failed.
C7_AdapterFailure ==
    /\ [][(adapter' \in {"errored", "raised"}) =>
             /\ IsPrefix(output, output')
             /\ messages' = messages
             /\ started' = started
             /\ gen_calls' = gen_calls]_vars
    /\ [](adapter = "raised" =>
             /\ pc \in {"after_loop", "end"}
             /\ exit_via = "except"
             /\ LoopErrorChunk \in Range(output)
             /\ Cardinality(ModelIdx(messages)) = gen_calls - 1)
    /\ []((pc = "end" /\ adapter = "raised") => Failed)

\* C7 witness: Failed after a turn that had forwarded a chunk before failing.
C7_Witness ==
    /\ Failed
    /\ \E i \in 1..Len(output) : output[i] \in Chunks /\ i > 1 /\ output[i - 1] = Sep

\* C8 as claimed: whichever adapter it is, when its generator propagates a
\* backend failure the last chunk it yielded is the error chunk.
C8_ErrorChunkThenRaise ==
    adapter = "raised" => (adapter_out # <<>> /\ Last(adapter_out) = AdapterErrorChunk)

\* C9: the conversation is append-only: each step leaves the messages already
\* there as they were, also the step in which an adapter prepares its request.
C9_AppendOnly == [][IsPrefix(messages, messages')]_vars

\* C9 witness: the request of the first turn was built with the catalog and
\* the conversation has grown since.
C9_Witness ==
    /\ turn_count = 2
    /\ pc = "streaming"
    /\ Len(messages) >= 3
    /\ messages[1] = Msg("user", Query)

\* C10: the catalog is passed to the adapter in the first turn and in no
\* other; a request carries it only in the entry made from the user message
\* at index 0, the first user entry of the request, and the request of a
\* later turn carries it nowhere.
C10_ToolInfoFirstTurnOnly ==
    pc = "streaming" =>
       /\ (info_arg # None) <=> (turn_count = 1)
       /\ \A i \in 1..Len(request) :
             CarriesToolInfo(request[i]) =>
                /\ turn_count = 1
                /\ request[i].role = "user"
                /\ \A j \in 1..(i - 1) : request[j].role # "user"
       /\ turn_count = 1 => \E i \in 1..Len(request) : CarriesToolInfo(request[i])

\* C10 witness: a later turn's request with several user entries.
C10_Witness ==
    /\ pc = "streaming"
    /\ turn_count = 3
    /\ Cardinality({i \in 1..Len(request) : request[i].role = "user"}) >= 3

\* C11: when the extractor finds no call in the first turn's response, the
\* invocation ends after that turn: one generation was requested, call_tool
\* was never invoked, the conversation holds the query and the one response,
\* and the caller received exactly the chunks the adapter yielded, in order.
C11_SingleTurnNoCalls ==
    (pc = "end" /\ exit_via = "no_calls" /\ turn_count = 1) =>
       /\ gen_calls = 1
       /\ started = 0
       /\ outcomes = <<>>
       /\ output = adapter_out
       /\ messages = <<Msg("user", Query), Msg("model", llm_response)>>
       /\ extract_tool_calls(llm_response, tools) = <<>>

\* C11 witness: an invocation ended after one turn whose response the caller
\* received as a chunk and which named no tool.
C11_Witness ==
    /\ pc = "end"
    /\ exit_via = "no_calls"
    /\ turn_count = 1
    /\ output = <<Text>>

\* C12 as claimed: a call whose name matches no tool of the session's list
\* fails per call, so the loop never gets to append a tool-result message
\* for it.
C12_UnknownToolIsError ==
    pc = "append_result" =>
       find_tool_by_name(tools, tool_calls[call_idx].name) # None

\* C13 as claimed: call_tool is not invoked for a call whose arguments fail
\* the validation against the schema of the tool it names.
C13_InvalidArgsNotExecuted ==
    pc = "await_tool" =>
       LET tool == find_tool_by_name(tools, tool_calls[call_idx].name)
       IN tool # None => validate_tool_args(tool, tool_calls[call_idx].args)

\* A call of the method op on a session has just returned or raised.
Called(op) == ops' = ops + 1 /\ last_op'.op = op

\* The session has completed connect and initialize.
Ready(c) == c.connected /\ c.info

\* C14: disconnect on a session, whatever its state, raises nothing and leaves
\* the connector disconnected with no transport session; a disconnect that
\* directly follows a disconnect of the same session changes nothing.  (The
\* exit stack's aclose is taken to complete.)
C14_DisconnectIdempotent ==
    [][Called("disconnect") =>
         LET s == last_op'.sid
         IN /\ last_op'.res = "ok"
            /\ ~sess'[s].connected
            /\ sess'[s].session = 0
            /\ last_op'.twice => sess'[s] = sess[s]]_vars

\* C14 witness: the second of two disconnects in a row on a session that had
\* been connected and initialized.
C14_Witness ==
    /\ last_op.op = "disconnect"
    /\ last_op.twice
    /\ sess[last_op.sid].info
    /\ ~sess[last_op.sid].connected

\* C15: connect on a connected session raises nothing and leaves the
\* connector as it was: the same transport session, nothing more entered on
\* the exit stack.
C15_ConnectIdempotent ==
    [][(Called("connect") /\ last_op'.pre) =>
         LET s == last_op'.sid
         IN /\ last_op'.res = "ok"
            /\ sess'[s].session = sess[s].session
            /\ sess'[s].stack = sess[s].stack
            /\ sess'[s] = sess[s]]_vars

\* C15 witness: a connect has returned on a session that was connected.
C15_Witness ==
    /\ last_op.op = "connect"
    /\ last_op.pre
    /\ last_op.res = "ok"
    /\ sess[last_op.sid].connected

\* C16 as claimed: call_tool on a session that has not completed both connect
\* and initialize fails as not connected and does not reach the transport.
C16_CallToolNeedsReady ==
    (last_op.op = "call_tool" /\ ~Ready(sess[last_op.sid])) =>
       (last_op.res = "not_connected" /\ ~last_op.reached)

\* C17 as claimed: reading available_tools of a session whose initialize has
\* not completed fails.
C17_AvailableToolsNeedsInit ==
    (last_op.op = "available_tools" /\ ~sess[last_op.sid].info) =>
       last_op.res # "ok"

\* C18 as claimed: no session the client connected is still connected unless
\* it is the client's active_session.
C18_OneConnectedSession ==
    \A i \in SessionIds :
       (sess[i].by_client /\ sess[i].connected) => i = active_session

\* C19 as claimed: when a disconnect of a session or of the client has
\* returned, the connector is disconnected and its exit stack holds no
\* transport that connect had entered.
C19_TeardownReleases ==
    (last_op.op \in {"disconnect", "disconnect_client"} /\ last_op.sid # 0) =>
       /\ ~sess[last_op.sid].connected
       /\ sess[last_op.sid].stack = <<>>

\* C20 as claimed: every call_tool of an invocation that goes to a session
\* goes to the one that was the client's active session when the invocation
\* started.
C20_OneSessionPerInvocation ==
    (pc = "await_tool" /\ call_target # 0) => call_target = start_session

\* C21: every unit works on a client of its own: the sessions its client made
\* are no other unit's and not the UI client's, its query runs on one of
\* them, and a step of a unit leaves the UI's client and every session that
\* is not the unit's own as they were; when the unit has ended, whichever
\* handler it went through, its finally block has called disconnect on its
\* client, the client holds no session and no session of it is connected.
C21_UnitsIsolated ==
    [][\A u \in Units :
         /\ unit'[u].used \subseteq unit'[u].made
         /\ unit'[u].active_session \in unit'[u].made \cup {0}
         /\ active_session' \notin unit'[u].made
         /\ \A v \in Units \ {u} : unit'[u].made \cap unit'[v].made = {}
         /\ unit'[u] # unit[u] =>
               /\ active_session' = active_session
               /\ active_server_name' = active_server_name
               /\ \A i \in SessionIds \ unit'[u].made : sess'[i] = sess[i]
         /\ unit'[u].pc = "done" =>
               /\ unit'[u].active_session = 0
               /\ \A i \in unit'[u].made : ~sess'[i].connected
               /\ unit'[u].path # "thread_error" => unit'[u].disconnects = 1]_vars

\* C21 witness: two units have ended, one after its stream raised and one
\* after its connect failed, each having made a session of its own.
C21_Witness ==
    \E u, v \in Units :
       /\ unit[u].pc = "done" /\ unit[u].path = "stream_error"
       /\ unit[v].pc = "done" /\ unit[v].path = "connect_error"
       /\ unit[u].made # {} /\ unit[v].made # {}

\* C22 as claimed: when a generate call of process_query fails, the initial
\* one or a follow-up, process_query does not return a text: the failure
\* reaches its caller.
C22_GenerateFailurePropagates ==
    pq.pc = "done" => ~pq.generate_failed

\* The segments of the text of the given kinds, in document order.
SegmentsOf(kinds) == SelectSeq(text_in, LAMBDA g : g.kind \in kinds)

\* C23 as claimed: for a text made of pairs in the convention, each with a
\* valid JSON object, the extractor returns one call per pair, in document
\* order, with the pair's name and its object as arguments.
C23_WellFormedPairs ==
    (extracted.done /\ \A i \in 1..Len(text_in) : text_in[i] \in Pairs) =>
       extracted.calls =
          [i \in 1..Len(text_in) |->
             [name |-> text_in[i].name, args |-> text_in[i].obj]]

\* C24 as claimed: the extractor never raises, and in a text whose pairs all
\* have their closing brace every pair has its call, with its name and at
\* its place in document order among the pairs' calls, and the call of a
\* pair whose braces hold no valid JSON has the empty argument mapping.
C24_InvalidJsonKept ==
    (extracted.done /\ SegmentsOf({"unclosed"}) = <<>>) =>
       LET ps == SegmentsOf({"pair", "invalid", "deep"})
       IN /\ ~extracted.raised
          /\ ps # <<>> =>
                /\ Len(extracted.calls) = Len(ps)
                /\ \A i \in 1..Len(ps) :
                      /\ extracted.calls[i].name = ps[i].name
                      /\ ps[i].kind \in {"invalid", "deep"} =>
                            extracted.calls[i].args = EmptyArgs

RECURSIVE MentionedTools(_)
\* One call with empty arguments for each tool of the list that a phrase of
\* the text names, in list order.
MentionedTools(tool_list) ==
    IF tool_list = <<>> THEN <<>>
    ELSE (IF \E i \in 1..Len(text_in) :
                /\ text_in[i].kind = "mention"
                /\ text_in[i].name = Head(tool_list).name
          THEN <<[name |-> Head(tool_list).name, args |-> EmptyArgs]>>
          ELSE <<>>) \o MentionedTools(Tail(tool_list))

\* C25: in a text without a pair the primary scan matches (and without an
\* unclosed one or one on which the scan raises), the result is the fallback's: with a tool list, exactly one
\* call with empty arguments for each listed tool whose phrase occurs, in
\* whatever case, and none for the others; without a tool list, nothing.
\* In a text with such a pair there are the pairs' calls and no other.
C25_FallbackOnlyWhenNoCalls ==
    (extracted.done /\ SegmentsOf({"unclosed", "deep"}) = <<>>) =>
       IF SegmentsOf({"pair", "invalid"}) = <<>>
       THEN extracted.calls = MentionedTools(tools_in)
       ELSE Len(extracted.calls) = Len(SegmentsOf({"pair", "invalid"}))

\* C25 witness: the fallback has returned a call for a tool whose phrase was
\* written in capitals, and none for the other tool of the list.
C25_Witness ==
    /\ extracted.done
    /\ Len(tools_in) = 2
    /\ \E i \in 1..Len(text_in) : text_in[i].tokens[1] = "USE THE "
    /\ extracted.calls = <<[name |-> "add", args |-> EmptyArgs]>>

\* C26 as claimed: a pair whose object stands between backticks has its call,
\* with the enclosed object as arguments, like a pair without backticks.
C26_BackticksTolerated ==
    (/\ extracted.done
     /\ \A i \in 1..Len(text_in) : text_in[i] \in FlatPairs \cup {Ticked}) =>
       extracted.calls =
          [i \in 1..Len(text_in) |->
             [name |-> text_in[i].name, args |-> text_in[i].obj]]

\* The schema declares the property f; its declared type; the names in it.
Declared(f) == \E i \in 1..Len(schema.properties) : schema.properties[i].name = f
TypeOf(f) ==
    schema.properties[CHOOSE i \in 1..Len(schema.properties) :
                         schema.properties[i].name = f].type
TypeNames(type) == {type.names[i] : i \in 1..Len(type.names)}

\* The property f is the only one declared and no required name is missing:
\* no other check can stop the validation.
OnlyCheck(f) ==
    /\ \A i \in 1..Len(schema.required) : schema.required[i] \in DOMAIN args_in
    /\ \A i \in 1..Len(schema.properties) : schema.properties[i].name = f

\* The JSON Schema type names a value is an instance of.
SchemaTypes(value) ==
    CASE value.t = "str" -> {"string"}
      [] value.t = "int" -> {"integer", "number"}
      [] value.t = "float" -> {"number"}
      [] value.t = "bool" -> {"boolean"}
      [] value.t = "list" -> {"array"}
      [] value.t = "dict" -> {"object"}
      [] value.t = "NoneType" -> {"null"}

\* C27: without a schema every mapping is valid and returned as it is; with
\* a schema, a mapping that lacks a required name is rejected with the
\* message naming a name it lacks, and a mapping that has the required names
\* and whose values are of the declared types is valid and returned as it is.
C27_RequiredAndPassThrough ==
    validated.done =>
       LET lacking == {schema.required[i] : i \in 1..Len(schema.required)}
                         \ DOMAIN args_in
       IN /\ ~schema.has =>
                /\ validated.valid
                /\ validated.args = Some(args_in)
          /\ (schema.has /\ lacking # {}) =>
                /\ ~validated.valid /\ ~validated.raised
                /\ validated.args = <<>>
                /\ \E f \in lacking :
                      validated.error = Some([kind |-> "missing", field |-> f])
          /\ (/\ schema.has /\ lacking = {}
              /\ \A f \in DOMAIN args_in :
                    (Declared(f) /\ TypeOf(f) # NoType) =>
                       SchemaTypes(args_in[f]) \cap TypeNames(TypeOf(f)) # {}) =>
                /\ validated.valid
                /\ validated.args = Some(args_in)

\* C27 witness: a mapping with both required names and values of the types
\* declared for both was validated and returned.
C27_Witness ==
    /\ validated.done
    /\ schema.required = <<"q", "n">>
    /\ Len(schema.properties) = 2
    /\ \A i \in 1..2 : schema.properties[i].type \in
                          {Type("integer"), Type("string")}
    /\ validated.valid
    /\ validated.args = Some(args_in)

\* The strings that are the text of a number, and of an integer; the number
\* a text denotes, as an integer and as a float.
NumberTexts == {Str("3"), Str("3.5")}
IntegerTexts == {Str("3")}
IntegerOf(value) == Val("int", value.v)
FloatOf(value) == IF value = Str("3") THEN Val("float", "3.0") ELSE Val("float", value.v)

\* The values that are no number of the declared type and cannot be made
\* one: a string that is not the text of such a number, a list, a dict, and
\* for an integer infinity.
NoNumber(type, value) ==
    \/ /\ value.t = "str"
       /\ value \notin (IF type = Type("integer") THEN IntegerTexts ELSE NumberTexts)
    \/ value.t \in {"list", "dict"}
    \/ type = Type("integer") /\ value = Val("float", "inf")

\* C28 as claimed: for a property declared integer or number, a string that
\* is the text of such a number is never the reason of a rejection and comes
\* back as that number, and a value that is no such number and cannot be made
\* one makes the validation fail: it returns a rejection, with the typed
\* message for the field when no other check can stop the validation.
C28_NumericCoercion ==
    \A f \in Fields :
       (/\ validated.done /\ schema.has
        /\ f \in DOMAIN args_in /\ args_in[f] # Null
        /\ Declared(f) /\ TypeOf(f) \in {Type("integer"), Type("number")}) =>
          LET integer == TypeOf(f) = Type("integer")
              word == IF integer THEN "integer" ELSE "number"
          IN /\ (args_in[f].t = "str" /\ ~NoNumber(TypeOf(f), args_in[f])) =>
                   /\ validated.error # Some([kind |-> word, field |-> f])
                   /\ validated.valid =>
                         validated.args[1][f] =
                            (IF integer THEN IntegerOf(args_in[f])
                             ELSE FloatOf(args_in[f]))
             /\ (NoNumber(TypeOf(f), args_in[f]) /\ OnlyCheck(f)) =>
                   /\ ~validated.raised
                   /\ validated.args = <<>>
                   /\ validated.error = Some([kind |-> word, field |-> f])

\* What the claims on null say of field f when it holds null and its property
\* is among those covered: with "null" as the type or in the type list, null
\* is never the reason of a rejection and the validation passes when no other
\* check can stop it; otherwise the validation fails, with the message naming
\* the field when no other check can stop it.
NullValue(f, covered) ==
    (/\ validated.done /\ schema.has
     /\ f \in DOMAIN args_in /\ args_in[f] = Null
     /\ Declared(f) /\ covered) =>
       IF "null" \in TypeNames(TypeOf(f))
       THEN /\ validated.error # Some([kind |-> "null", field |-> f])
            /\ OnlyCheck(f) =>
                  validated.valid /\ validated.args[1][f] = Null
       ELSE /\ ~validated.valid
            /\ validated.args = <<>>
            /\ OnlyCheck(f) =>
                  validated.error = Some([kind |-> "null", field |-> f])

\* C29 as claimed: null for a declared property passes if and only if the
\* declared type is "null" or a list with "null"; otherwise the validation
\* fails with the message naming the field.
C29_NullAsClaimed == \A f \in Fields : NullValue(f, TRUE)

\* C29, amended: the same for a declared property that gives a type.
C29_NullForTypedProperty ==
    \A f \in Fields : NullValue(f, Declared(f) /\ TypeOf(f) # NoType)

\* C29 witness: null for a property declared string was rejected.
C29_Witness ==
    /\ validated.done
    /\ "n" \in DOMAIN args_in /\ args_in["n"] = Null
    /\ Declared("n") /\ TypeOf("n") = Type("string")
    /\ validated.error = Some([kind |-> "null", field |-> "n"])

\* What the claims on failures say, given whether a null value may be the
\* reason: a rejection returns no arguments and a message naming a field,
\* which is a required name the mapping lacks, or (if null may be the reason)
\* a property holding null, or a property declared with a type other than
\* string whose word the message carries; and a value given for a property
\* declared string comes back as a string when the validation passes.
Failures(null_may_fail) ==
    validated.done =>
       /\ (~validated.valid /\ ~validated.raised) =>
             /\ validated.args = <<>>
             /\ validated.error # <<>>
             /\ LET e == validated.error[1]
                IN \/ /\ e.kind = "missing"
                      /\ \E i \in 1..Len(schema.required) :
                            schema.required[i] = e.field
                      /\ e.field \notin DOMAIN args_in
                   \/ /\ null_may_fail
                      /\ e.kind = "null"
                      /\ e.field \in DOMAIN args_in /\ args_in[e.field] = Null
                      /\ Declared(e.field)
                   \/ /\ e.kind \in {"number", "integer", "boolean", "array", "object"}
                      /\ e.field \in DOMAIN args_in /\ args_in[e.field] # Null
                      /\ Declared(e.field) /\ TypeOf(e.field) = Type(e.kind)
       /\ validated.valid =>
             \A f \in DOMAIN args_in :
                (Declared(f) /\ TypeOf(f) = Type("string") /\ args_in[f] # Null) =>
                   validated.args[1][f] = Str(args_in[f].v)

\* C30 as claimed: no value given for a property declared string makes the
\* validation fail; every rejection comes from another type or a required
\* name that is missing, returns no arguments and names the field.
C30_FailuresAsClaimed == Failures(FALSE)

\* C30, amended: no value other than null given for a property declared
\* string makes the validation fail; every rejection comes from another
\* type, a null value or a required name that is missing, returns no
\* arguments and names the field.
C30_FailuresNameField == Failures(TRUE)

\* C30 witness: a dict given for a property declared string came back as
\* its text.
C30_Witness ==
    /\ validated.done
    /\ "n" \in DOMAIN args_in /\ args_in["n"].t = "dict"
    /\ Declared("n") /\ TypeOf("n") = Type("string")
    /\ validated.valid
    /\ validated.args[1]["n"] = Str("{}")

\* C39 as claimed: when the validation passes, every declared property that
\* is present, not null and declared with one simple type has in the
\* arguments returned a value of that type; a bool is no integer and no
\* number.
C39_ReturnedTypes ==
    (validated.done /\ validated.valid) =>
       \A f \in DOMAIN args_in :
          (/\ Declared(f) /\ args_in[f] # Null
           /\ ~TypeOf(f).list
           /\ TypeNames(TypeOf(f)) \subseteq
                 {"string", "number", "integer", "boolean", "array", "object"}
           /\ TypeOf(f) # NoType) =>
             TypeNames(TypeOf(f)) \subseteq SchemaTypes(validated.args[1][f])

\* The part the rules give for an item: its text where it has one, else the
\* placeholder around the start of its data, else its string form.
PartOf(item) ==
    CASE "text" \in item.attrs -> item.text
      [] "text" \notin item.attrs /\ "data" \in item.attrs ->
            <<"[Image/Data: ">>
            \o [i \in 1..(IF Len(item.data) > 20 THEN 20 ELSE Len(item.data)) |->
                  item.data[i]]
            \o <<"...]">>
      [] OTHER -> <<"<" \o item.id \o ">">>

RECURSIVE StartOf(_, _)
\* Where the part of the k-th item starts in the text: after the parts of
\* the items before it and a newline after each.
StartOf(items, k) ==
    IF k = 1 THEN 1
    ELSE StartOf(items, k - 1) + Len(PartOf(items[k - 1])) + 1

\* C31: a string content is returned as it is; of a list content the parts
\* of the items stand in the text in item order, a newline between two
\* neighbours and nothing else; a result without content comes back as its
\* string form.
C31_FormatRules ==
    formatted.done =>
       /\ (result_in.has_content /\ result_in.type = "str") =>
             formatted.text = result_in.content
       /\ (result_in.has_content /\ result_in.type = "list") =>
             LET items == result_in.items
                 end(k) == StartOf(items, k) + Len(PartOf(items[k])) - 1
             IN /\ items = <<>> => formatted.text = <<>>
                /\ \A k \in 1..Len(items) :
                      /\ end(k) <= Len(formatted.text)
                      /\ SubSeq(formatted.text, StartOf(items, k), end(k)) =
                            PartOf(items[k])
                      /\ k < Len(items) => formatted.text[end(k) + 1] = "nl"
                      /\ k = Len(items) => Len(formatted.text) = end(k)
       /\ ~result_in.has_content => formatted.text = <<"<r>">>

\* C31 witness: a list of an item with text and data and an item with long
\* data was formatted: the text of the first, a newline, the cut placeholder.
C31_Witness ==
    /\ formatted.done
    /\ result_in.type = "list" /\ Len(result_in.items) = 2
    /\ result_in.items[1].attrs = {"text", "data"}
    /\ result_in.items[2].data = LongData
    /\ Len(formatted.text) = 1 + 1 + 22

\* The chunks that came from the model's adapter.
ModelChunk(p) == p.k \in {"text", "pair", "mention", "adapter_error"}

\* What one delivered chunk tells of the conversation: the messages due so
\* far, the chunks of the turn being streamed, whether a turn or a batch of
\* calls is under way, and the tool of the last notice.
ConvStep(st, p) ==
    CASE ModelChunk(p) -> [st EXCEPT !.cur = Append(@, p)]
      [] p.k = "sep" -> [st EXCEPT !.cur = <<>>, !.phase = "turn"]
      [] p.k = "using_tool" ->
            IF st.phase = "turn"
            THEN [msgs |-> Append(st.msgs, Msg("model", st.cur)), cur |-> <<>>,
                  phase |-> "batch", name |-> p.name]
            ELSE [st EXCEPT !.name = p.name]
      [] p.k = "result" ->
            [st EXCEPT !.msgs = Append(@, Msg("user",
                <<Piece("TOOL RESULT: ", st.name, "")>> \o result_text))]
      [] p.k = "tool_error" ->
            [st EXCEPT !.msgs = Append(@, Msg("user",
                <<Piece("TOOL ERROR: ", st.name, "")>> \o error_text))]
      [] p.k = "loop_error" -> [st EXCEPT !.cur = <<>>, !.phase = "failed"]
      [] OTHER -> st

RECURSIVE ConvFold(_, _, _)
ConvFold(out, i, st) ==
    IF i > Len(out) THEN st ELSE ConvFold(out, i + 1, ConvStep(st, out[i]))

\* The conversation the delivered chunks call for: the query; a model message
\* of a turn's chunks once the turn is completed (its batch has begun, or it
\* ended the loop without calls); a tagged message per result or error chunk,
\* the last of them due only after the step that appends it.
DueConversation ==
    LET st == ConvFold(output, 1,
                       [msgs |-> <<>>, cur |-> <<>>, phase |-> "turn", name |-> ""])
        closed == IF st.phase = "turn" /\ exit_via = "no_calls"
                  THEN Append(st.msgs, Msg("model", st.cur))
                  ELSE st.msgs
        due == IF pc \in {"append_result", "append_error"}
               THEN SubSeq(closed, 1, Len(closed) - 1)
               ELSE closed
    IN IF pc = "start" \/ exit_via = "no_session" THEN <<>>
       ELSE <<Msg("user", Query)>> \o due

\* The messages that follow the model message at m, up to the next model
\* message.
GroupAfter(m) ==
    LET later == {j \in ModelIdx(messages) : j > m}
        end == IF later = {} THEN Len(messages)
               ELSE (CHOOSE j \in later : \A k \in later : j <= k) - 1
    IN SubSeq(messages, m + 1, end)

\* C32: at every point the conversation is the query, then for each completed
\* turn in order the model message of the chunks forwarded in that turn and
\* one message per call extracted from it, in call order, tagged TOOL RESULT
\* or TOOL ERROR with the call's name, as the call ended; only the batch of
\* the last turn may still be short of messages.
C32_ConversationShape ==
    /\ messages = DueConversation
    /\ \A m \in ModelIdx(messages) :
          LET calls == extract_tool_calls(messages[m].content, tools)
              group == GroupAfter(m)
          IN /\ Len(group) <= Len(calls)
             /\ \A k \in 1..Len(group) :
                   /\ group[k].role = "user"
                   /\ group[k].content[1].k \in {"TOOL RESULT: ", "TOOL ERROR: "}
                   /\ group[k].content[1].name = calls[k].name
             /\ (m # LastModelIdx(messages)
                 \/ pc \in {"while", "generate", "streaming", "after_loop", "end"}) =>
                   Len(group) = Len(calls)
             /\ m = LastModelIdx(messages) =>
                   \A k \in 1..Len(group) :
                      group[k].content[1].k =
                         (IF outcomes[k] = "returned" THEN "TOOL RESULT: "
                          ELSE "TOOL ERROR: ")

\* C32 witness: the second turn is completed, after a first turn of two
\* calls of which one failed and one returned.
C32_Witness ==
    /\ turn_count = 2
    /\ Len(messages) >= 5
    /\ messages[3].content[1].k # messages[4].content[1].k
    /\ messages[5].role = "model"

\* C33: a call is invoked right after its notice was delivered; while it is
\* in flight nothing is delivered; when it completes its result chunk (if it
\* returned) or error chunk (if it raised) is delivered; so in the output
\* every notice is followed by the chunk of its own call, and every result
\* or error chunk stands right after a notice.
C33_NoticeCallResult ==
    /\ [](pc \in {"call_tool", "await_tool"} =>
             Last(output) = UsingTool(tool_calls[call_idx]))
    /\ [][(pc = "call_tool") => (pc' = "await_tool" /\ output' = output)]_vars
    /\ [][(pc = "await_tool") =>
             /\ Len(outcomes') = Len(outcomes) + 1
             /\ output' = Append(output, IF Last(outcomes') = "returned"
                                         THEN ResultChunk ELSE ToolErrorChunk)]_vars
    /\ [](\A i \in 1..Len(output) :
             /\ (output[i].k = "using_tool" /\ i < Len(output)) =>
                   output[i + 1] \in {ResultChunk, ToolErrorChunk}
             /\ output[i] \in {ResultChunk, ToolErrorChunk} =>
                   i > 1 /\ output[i - 1].k = "using_tool")

\* C33 witness: the second call of a batch has returned after the first one
\* raised.
C33_Witness ==
    /\ pc = "append_result"
    /\ call_idx = 2
    /\ outcomes = <<"raised", "returned">>

\* C35 as claimed: once an adapter has failed during streaming the output
\* holds exactly one error chunk for the failure, and it is the last chunk.
C35_OneFinalErrorChunk ==
    adapter \in {"errored", "raised"} =>
       /\ Cardinality({i \in 1..Len(output) :
                          output[i] \in {AdapterErrorChunk, LoopErrorChunk}}) = 1
       /\ Last(output) \in {AdapterErrorChunk, LoopErrorChunk}

\* ------------------------------------------- the UI session and its files
\* A piece of text of the UI session: a chunk the stream of query q yielded
\* (plain text or a tool notice), the query itself, or the message one of the
\* two handlers of process_query_thread appends.
UiText(q, k) == [q |-> q, k |-> k]

\* app.py:248, 416: a chat_history entry; q is the query it belongs to.
ChatMessage(role, content, q) == [role |-> role, content |-> content, q |-> q]

\* app.py:156, 195-197, 200, 211, 232: the dictionary dumped to the status
\* file.
Status(complete, tool, error) ==
    [complete |-> complete, tool |-> tool, error |-> error]

\* open(path, "w") truncates the file when it is opened; what is written
\* reaches the file when the with block closes it.
Truncated == Some(<<>>)

\* open(path, "a") followed by write: the text is added to what the file
\* holds; a file that does not exist is created.
appended(file, text) ==
    IF file = None THEN Some(text) ELSE Some(file[1] \o text)

\* app.py:236-264: submit_query for the next query, in a session connected
\* to a server; the thread is started and the script is rerun, which takes
\* it to the polling loop (app.py:380).
UiSubmitQuery(t) ==
    /\ active_server_name # "none"
    /\ ~is_processing
    /\ thread[t].pc = "idle"
    /\ \A o \in Units : o < t => thread[o].pc # "idle"
    /\ is_processing' = TRUE
    /\ chat_history' =
          Append(chat_history, ChatMessage("user", <<UiText(t, "query")>>, t))
    /\ thread' = [thread EXCEPT ![t].pc = "init_response"]
    /\ poll' = [pc |-> "read_response", q |-> t, current_response |-> <<>>]
    /\ UNCHANGED <<response_file, status_file>>
    /\ UNCHANGED <<queryVars, clientVars, appVars, fnVars>>

\* app.py:153-154: the response file is opened for writing and "" is written.
ThreadInitResponse(t) ==
    /\ thread[t].pc = "init_response"
    /\ response_file' = Truncated
    /\ thread' = [thread EXCEPT ![t].pc = "init_status"]
    /\ UNCHANGED <<is_processing, chat_history, status_file, poll>>
    /\ UNCHANGED <<queryVars, clientVars, appVars, fnVars>>

\* Where the thread is after the status file has been opened at each of the
\* places it is written.
dump_of(p) ==
    CASE p = "init_status" -> "init_dump"
      [] p = "status_open" -> "status_dump"
      [] p = "handler_open" -> "handler_dump"
      [] p = "thread_open" -> "thread_dump"

\* app.py:155, 194, 210, 231: open(status_file, "w").
ThreadOpenStatus(t) ==
    /\ thread[t].pc \in {"init_status", "status_open", "handler_open",
                         "thread_open"}
    /\ status_file' = Truncated
    /\ thread' = [thread EXCEPT ![t].pc = dump_of(@)]
    /\ UNCHANGED <<is_processing, chat_history, response_file, poll>>
    /\ UNCHANGED <<queryVars, clientVars, appVars, fnVars>>

\* Mutant: the handler of process_streaming leaves the status incomplete.
status_dumped_handler_incomplete(p, current_tool) ==
    CASE p = "init_dump" -> Status(FALSE, "None", "None")
      [] p = "status_dump" -> Status(FALSE, current_tool, "None")
      [] p = "complete_dump" -> Status(TRUE, "None", "None")
      [] p = "handler_dump" -> Status(FALSE, "None", "error")
      [] p = "thread_dump" -> Status(TRUE, "None", "error")

\* app.py:156, 195-197, 200, 211, 232: the dictionary dumped at each place.
status_dumped(p, current_tool) ==
    CASE p = "init_dump" -> Status(FALSE, "None", "None")
      [] p = "status_dump" -> Status(FALSE, current_tool, "None")
      [] p = "complete_dump" -> Status(TRUE, "None", "None")
      [] p = "handler_dump" -> Status(TRUE, "None", "error")
      [] p = "thread_dump" -> Status(TRUE, "None", "error")

\* Where the thread goes after each dump: on to its client (app.py:160), back
\* to the stream (178), to the finally block (213), or to its end.
after_dump(p) ==
    CASE p = "init_dump" -> "connect"
      [] p = "status_dump" -> "stream"
      [] p = "complete_dump" -> "finally"
      [] p = "handler_dump" -> "finally"
      [] p = "thread_dump" -> "done"

\* app.py:156, 195-197, 200, 211, 232: json.dump and the close of the file.
ThreadDumpStatus(t) ==
    /\ thread[t].pc \in {"init_dump", "status_dump", "complete_dump",
                         "handler_dump", "thread_dump"}
    /\ status_file' =
          Some(<<status_dumped(thread[t].pc, thread[t].current_tool)>>)
    /\ thread' = [thread EXCEPT ![t].pc = after_dump(@)]
    /\ UNCHANGED <<is_processing, chat_history, response_file, poll>>
    /\ UNCHANGED <<queryVars, clientVars, appVars, fnVars>>

\* app.py:206-208, 228-229: a handler appends its message to the response
\* file and goes on to open the status file; with the message the run has
\* produced its whole response.
handled(t, path, k, next) ==
    /\ response_file' = appended(response_file, <<UiText(t, k)>>)
    /\ thread' = [thread EXCEPT
                     ![t].pc = next,
                     ![t].path = path,
                     ![t].final = Some(thread[t].full_response
                                       \o <<UiText(t, k)>>)]

\* app.py:160-171: the thread makes its client and event loop and connects
\* to the server.  When making them raises, the handler of the thread runs
\* (226-229); when connect_to_server raises, the handler of process_streaming
\* (204-208).
ThreadConnect(t) ==
    /\ thread[t].pc = "connect"
    /\ \E outcome \in {"ok", "client_raises", "connect_raises"} :
          IF outcome = "ok"
          THEN /\ thread' = [thread EXCEPT ![t].pc = "stream"]
               /\ UNCHANGED response_file
          ELSE IF outcome = "client_raises"
          THEN handled(t, "thread_error", "thread_error", "thread_open")
          ELSE handled(t, "connect_error", "error", "handler_open")
    /\ UNCHANGED <<is_processing, chat_history, status_file, poll>>
    /\ UNCHANGED <<queryVars, clientVars, appVars, fnVars>>

\* The chunks a stream can yield next: its first chunk is the blank line of
\* client.py:210; a later one is text or a tool notice.
next_chunks(full_response) ==
    IF full_response = <<>> THEN {"text"} ELSE {"text", "notice"}

\* app.py:180-186: current_tool after a chunk; a notice names the tool.
tool_after(current_tool, k) == IF k = "notice" THEN "add" ELSE current_tool

\* app.py:178-191: the stream yields its next chunk, which is appended to
\* full_response, and the response file is opened for writing.
ThreadChunk(t) ==
    /\ thread[t].pc = "stream"
    /\ Len(thread[t].full_response) < MaxYielded
    /\ \E k \in next_chunks(thread[t].full_response) :
          thread' = [thread EXCEPT
                        ![t].full_response = Append(@, UiText(t, k)),
                        ![t].current_tool = tool_after(@, k),
                        ![t].pc = "response_write"]
    /\ response_file' = Truncated
    /\ UNCHANGED <<is_processing, chat_history, status_file, poll>>
    /\ UNCHANGED <<queryVars, clientVars, appVars, fnVars>>

\* app.py:192: the joined full_response is written and the file closed.
ThreadWriteResponse(t) ==
    /\ thread[t].pc = "response_write"
    /\ response_file' = Some(thread[t].full_response)
    /\ thread' = [thread EXCEPT ![t].pc = "status_open"]
    /\ UNCHANGED <<is_processing, chat_history, status_file, poll>>
    /\ UNCHANGED <<queryVars, clientVars, appVars, fnVars>>

\* app.py:178, 199: the stream ends, having yielded at least its first chunk;
\* what the run produced is full_response; the status file is opened.
ThreadStreamEnd(t) ==
    /\ thread[t].pc = "stream"
    /\ thread[t].full_response # <<>>
    /\ thread' = [thread EXCEPT ![t].pc = "complete_dump",
                                ![t].path = "success",
                                ![t].final = Some(thread[t].full_response)]
    /\ status_file' = Truncated
    /\ UNCHANGED <<is_processing, chat_history, response_file, poll>>
    /\ UNCHANGED <<queryVars, clientVars, appVars, fnVars>>

\* app.py:178 (and 204-208): the stream raises after a chunk (what the loop
\* does not catch itself, such as a raise at client.py:225) and the handler
\* of process_streaming runs.
ThreadStreamRaises(t) ==
    /\ thread[t].pc = "stream"
    /\ thread[t].full_response # <<>>
    /\ handled(t, "stream_error", "error", "handler_open")
    /\ UNCHANGED <<is_processing, chat_history, status_file, poll>>
    /\ UNCHANGED <<queryVars, clientVars, appVars, fnVars>>

\* app.py:213-224: the finally block disconnects the thread's client,
\* swallowing what that raises; the loop is closed and the thread ends.
ThreadFinally(t) ==
    /\ thread[t].pc = "finally"
    /\ thread' = [thread EXCEPT ![t].pc = "done"]
    /\ UNCHANGED <<is_processing, chat_history, response_file, status_file,
                   poll>>
    /\ UNCHANGED <<queryVars, clientVars, appVars, fnVars>>

\* app.py:277, 283-288: current_response is what the response file holds, ""
\* when there is none.
PollReadResponse ==
    /\ poll.pc = "read_response"
    /\ poll' = [poll EXCEPT
                   !.pc = "read_status",
                   !.current_response =
                      IF response_file = None THEN <<>> ELSE response_file[1]]
    /\ UNCHANGED <<is_processing, chat_history, response_file, status_file,
                   thread>>
    /\ UNCHANGED <<queryVars, clientVars, appVars, fnVars>>

\* app.py:278, 291-300: is_complete is False when there is no status file,
\* True when json.load raises (an empty file is no JSON document), and the
\* record's 'complete' otherwise.
is_complete(file) ==
    IF file = None THEN FALSE
    ELSE IF file[1] = <<>> THEN TRUE
    ELSE file[1][1].complete

\* app.py:290-308, 413-421: the status file is read; when it says complete the
\* response read before is appended to chat_history, is_processing is cleared
\* and the loop is left; otherwise the loop sleeps and starts again.
PollReadStatus ==
    /\ poll.pc = "read_status"
    /\ IF is_complete(status_file)
       THEN /\ chat_history' =
                  Append(chat_history,
                         ChatMessage("assistant", poll.current_response, poll.q))
            /\ is_processing' = FALSE
            /\ poll' = [poll EXCEPT !.pc = "idle"]
       ELSE /\ poll' = [poll EXCEPT !.pc = "read_response"]
            /\ UNCHANGED <<is_processing, chat_history>>
    /\ UNCHANGED <<response_file, status_file, thread>>
    /\ UNCHANGED <<queryVars, clientVars, appVars, fnVars>>

ThreadStep(t) ==
    \/ ThreadInitResponse(t)
    \/ ThreadOpenStatus(t)
    \/ ThreadDumpStatus(t)
    \/ ThreadConnect(t)
    \/ ThreadChunk(t)
    \/ ThreadWriteResponse(t)
    \/ ThreadStreamEnd(t)
    \/ ThreadStreamRaises(t)
    \/ ThreadFinally(t)

PollStep == PollReadResponse \/ PollReadStatus

\* One UI session: its queries, their threads and the polling loop.
UiNext ==
    \/ \E t \in Units : UiSubmitQuery(t)
    \/ \E t \in Units : ThreadInitResponse(t)
    \/ \E t \in Units : ThreadOpenStatus(t)
    \/ \E t \in Units : ThreadDumpStatus(t)
    \/ \E t \in Units : ThreadConnect(t)
    \/ \E t \in Units : ThreadChunk(t)
    \/ \E t \in Units : ThreadWriteResponse(t)
    \/ \E t \in Units : ThreadStreamEnd(t)
    \/ \E t \in Units : ThreadStreamRaises(t)
    \/ \E t \in Units : ThreadFinally(t)
    \/ PollReadResponse
    \/ PollReadStatus

\* The UI session after a server has been connected (app.py:92-118); no
\* query has been submitted.
UiInit == Init /\ llm = "GptLLM"

UiSpec == UiInit /\ [][UiNext]_vars

\* Every started thread is scheduled, every call it awaits returns or raises,
\* and the script keeps running its polling loop.
UiLiveSpec ==
    UiSpec /\ (\A t \in Units : WF_vars(ThreadStep(t))) /\ WF_vars(PollStep)

\* What the session's earlier query, if there was one, has left: the
\* chat_history entries, the response file and the status file after a run
\* that ended well, and after one whose handler ran.
Leftover(history, response, status) ==
    [history |-> history, response |-> response, status |-> status]

Leftovers ==
    { Leftover(<<>>, None, None),
      Leftover(<<ChatMessage("user", <<UiText(0, "query")>>, 0),
                 ChatMessage("assistant", <<UiText(0, "text")>>, 0)>>,
               Some(<<UiText(0, "text")>>),
               Some(<<Status(TRUE, "None", "None")>>)),
      Leftover(<<ChatMessage("user", <<UiText(0, "query")>>, 0),
                 ChatMessage("assistant",
                             <<UiText(0, "text"), UiText(0, "error")>>, 0)>>,
               Some(<<UiText(0, "text"), UiText(0, "error")>>),
               Some(<<Status(TRUE, "None", "error")>>)) }

\* A connected UI session between two queries, no thread running.
RunInit ==
    /\ QueryInit /\ llm = "GptLLM" /\ ConnectedClient(Tools) /\ IdleFn
    /\ unit = [u \in Units |-> IdleUnit] /\ pq = IdlePq
    /\ is_processing = FALSE
    /\ thread = [t \in Units |-> IdleThread]
    /\ poll = IdlePoll
    /\ \E l \in Leftovers :
          /\ chat_history = l.history
          /\ response_file = l.response
          /\ status_file = l.status

\* One query of the session: its submission, its thread and the polling loop.
RunNext ==
    \/ UiSubmitQuery(1)
    \/ ThreadInitResponse(1)
    \/ ThreadOpenStatus(1)
    \/ ThreadDumpStatus(1)
    \/ ThreadConnect(1)
    \/ ThreadChunk(1)
    \/ ThreadWriteResponse(1)
    \/ ThreadStreamEnd(1)
    \/ ThreadStreamRaises(1)
    \/ ThreadFinally(1)
    \/ PollReadResponse
    \/ PollReadStatus

\* The thread is scheduled, every call it awaits returns or raises, and the
\* script keeps running its polling loop.
RunSpec ==
    RunInit /\ [][RunNext]_vars /\ WF_vars(ThreadStep(1)) /\ WF_vars(PollStep)

\* C34 as claimed: whenever the client holds an active_session, that session
\* is connected and initialized and active_server_name is the name of its
\* server; so after a connect_to_server that raised, the client holds no
\* session that is not ready.
C34_NoHalfBuiltSession ==
    active_session # 0 =>
       /\ Ready(sess[active_session])
       /\ active_server_name = sess[active_session].server


\* The thread has made its last write to the files.
Ended(t) == thread[t].pc \in {"finally", "done"}

\* The thread has been started and has writes to the files ahead of it.
Writing(t) == thread[t].pc \notin {"idle", "finally", "done"}

\* The status file holds a record marked complete.
MarkedComplete ==
    /\ status_file # None
    /\ status_file[1] # <<>>
    /\ status_file[1][1].complete

\* C36: every run of process_query_thread ends with the status record marked
\* complete, whichever handler it went through: the write with which a thread
\* finishes marks the record complete and records an error exactly when a
\* handler ran, and once a thread has ended and no other is writing the
\* record is marked complete.  A query being processed is eventually no longer
\* being processed, and is_processing is cleared only by the polling loop
\* appending an assistant message for the query it waited for.  (The writes
\* to the two files are taken to succeed and every awaited call to return or
\* raise.)
C36_RunEndsComplete ==
    /\ [][\A t \in Units :
            (~Ended(t) /\ Ended(t)') =>
               status_file' =
                  Some(<<Status(TRUE, "None",
                                IF thread'[t].path = "success"
                                THEN "None" ELSE "error")>>)]_vars
    /\ [](\A t \in Units :
            (Ended(t) /\ \A o \in Units : ~Writing(o)) => MarkedComplete)
    /\ (is_processing ~> ~is_processing)
    /\ [][(is_processing /\ ~is_processing') =>
            /\ Len(chat_history') = Len(chat_history) + 1
            /\ Last(chat_history').role = "assistant"
            /\ Last(chat_history').q = poll.q]_vars

\* C36 witness: the polling loop has appended the assistant message of a
\* query whose thread ended through the handler of process_streaming after a
\* failed connect.
C36_Witness ==
    /\ thread[1].pc = "done"
    /\ thread[1].path = "connect_error"
    /\ ~is_processing
    /\ chat_history # <<>>
    /\ Last(chat_history).role = "assistant"
    /\ Last(chat_history).q = 1

\* C37 as claimed: an assistant message in chat_history for a query is the
\* whole response that query's own thread produced.
C37_OwnFinalOutput ==
    \A i \in DOMAIN chat_history :
       LET m == chat_history[i]
       IN (m.role = "assistant" /\ m.q # 0) =>
             /\ thread[m.q].final # None
             /\ m.content = thread[m.q].final[1]

\* The thread has been started and has not ended.
Running(t) == thread[t].pc \notin {"idle", "done"}

\* C38 as claimed: at most one thread of the session is running at any time,
\* and is_processing is cleared only when the thread of the query being
\* processed has ended.
C38_OneRunningUnit ==
    /\ [](Cardinality({t \in Units : Running(t)}) <= 1)
    /\ [][(is_processing /\ ~is_processing') => thread[poll.q].pc = "done"]_vars

====
